---- MODULE Spec2Model ----
(***************************************************************************)
(* Verification model of the ChillPomodoro schedule pipeline:              *)
(*   - ActivityScheduler.scheduleActivities      (js/utils)                *)
(*   - ScheduleManager parse / process / grid    (js/classes)              *)
(*   - ScheduleRenderer.renderWeeklySchedule map (js/utils)                *)
(*   - DailyActivityManager + ChillPomodoroApp.createDailySchedule         *)
(* Wall-clock strings "HH:MM" are modelled as pairs <<hours, minutes>>;    *)
(* text is modelled as a tuple of one-character strings.                   *)
(***************************************************************************)
EXTENDS Integers, Sequences, FiniteSets, Bags, TLC

VARIABLES
    \* ---- ActivityScheduler.scheduleActivities call ----
    activities,     \* the activity array handed to scheduleActivities
    timeSlot,       \* the {startTime, endTime} slot handed to it
    scheduled,      \* the returned array
    schedPc,        \* "input" before the call, "done" after it
    \* ---- weekly grid: processCourses, generateWeeklySchedule, render ----
    rawCourses,     \* rows returned by XLSXParser.parseClassScheduleFile
    courses,        \* schedule.courses
    coursesFrom,    \* "none", "file", "processCourses" or "store"
    gridOp,         \* "none", "render" or "generate": the projection applied
    renderResult,   \* what renderWeeklySchedule built
    weeklyResult,   \* what generateWeeklySchedule returned
    \* ---- persistence and ScheduleManager ----
    store,          \* the records of the IndexedDB object store 'schedules'
    nextId,         \* the next autoIncrement key of that store
    schedules,      \* ScheduleManager.schedules
    currentSchedule,\* id of ScheduleManager.currentSchedule, 0 for null
    clock,          \* the wall clock read by new Date()
    \* ---- ChillPomodoroApp.handleScheduleUpload ----
    uploadPc,       \* "idle", "adding" (awaiting addItem), "listing"
    uploadSchedule, \* the schedule object being created
    uploadResult,   \* "none", "success" or "error": the notification shown
    \* ---- DailyActivityManager.getClassScheduleForDate ----
    queryDay,       \* date.getDay() of the last query, -1 before any
    dayCourses,     \* what the last query returned
    \* ---- ChillPomodoroApp.createDailySchedule and its form ----
    today,          \* the current day, counted from a Sunday
    formDate,       \* targetDate of the create form shown, NoForm if none
    button,         \* createScheduleBtn: "none", "unbound", "enabled", "disabled"
    invocation,     \* the createDailySchedule calls in flight
    \* ---- one call of a function that keeps no state ----
    callee,         \* name of the function called, "none" before the call
    args,           \* the arguments of the call
    returned,       \* what the call returned
    \* ---- DailyActivityManager.updateActivityStatus ----
    statusCall,     \* the updateActivityStatus calls in flight
    \* ---- PomodoroTimer ----
    timer,          \* the fields of the PomodoroTimer object
    browser,        \* registered tick intervals, pending auto-start
                    \* timeouts, document.hidden
    localStorage,   \* the keys chillpomodoro-state and chillpomodoro-hidden-time
    settings        \* the Settings object the timer was built with

schedVars == <<activities, timeSlot, scheduled, schedPc>>

gridVars == <<rawCourses, courses, coursesFrom, gridOp, renderResult,
              weeklyResult>>

storeVars == <<store, nextId, schedules, currentSchedule, clock>>

uploadVars == <<uploadPc, uploadSchedule, uploadResult>>

queryVars == <<queryDay, dayCourses>>

dailyVars == <<today, formDate, button, invocation>>

callVars == <<callee, args, returned>>

statusVars == <<statusCall>>

timerVars == <<timer, browser, localStorage, settings>>

vars == <<schedVars, gridVars, storeVars, uploadVars, queryVars, dailyVars,
          callVars, statusVars, timerVars>>

----------------------------------------------------------------------------
(* Bounds *)
MaxActivities == 3
MaxCourses == 2
MaxEntries == 2
MaxUploads == 2
MaxInvocations == 2
MaxDay == 2
MaxRecords == 2
MaxCandidates == 2
MaxListed == 4
MaxClasses == 2
MaxText == 7
MaxUpdates == 2
MaxSessions == 3
MaxPending == 2

----------------------------------------------------------------------------
(* Generic helpers *)

Range(s) == {s[i] : i \in 1..Len(s)}

\* JavaScript's % operator: the result takes the sign of the dividend.
JsRem(a, b) == IF a >= 0 THEN a % b ELSE 0 - ((0 - a) % b)

Min(a, b) == IF a <= b THEN a ELSE b

SeqsUpTo(S, n) == UNION {[1..k -> S] : k \in 0..n}

----------------------------------------------------------------------------
(* ActivityScheduler *)

NoTime == <<>>

breakDuration == 10

\* timeStr.split(':').map(Number); hours * 60 + minutes
timeToMinutes(timeStr) == timeStr[1] * 60 + timeStr[2]

\* Math.floor(minutes / 60) and minutes % 60, each printed as a field
minutesToTime(minutes) == <<minutes \div 60, JsRem(minutes, 60)>>

\* priorityOrder[p] || 0
priorityOrder(p) ==
    CASE p = "high" -> 3
      [] p = "medium" -> 2
      [] p = "low" -> 1
      [] OTHER -> 0

\* a variant that puts an activity in front of those of equal weight
RECURSIVE InsertBeforeEqual(_, _, _)
InsertBeforeEqual(acts, sorted, i) ==
    IF sorted = <<>> THEN <<i>>
    ELSE IF priorityOrder(acts[Head(sorted)].priority) > priorityOrder(acts[i].priority)
         THEN <<Head(sorted)>> \o InsertBeforeEqual(acts, Tail(sorted), i)
         ELSE <<i>> \o sorted

\* [...activities].sort(cmp): a stable sort, descending by weight.
\* Returns the permutation of input positions.
RECURSIVE InsertStable(_, _, _)
InsertStable(acts, sorted, i) ==
    IF sorted = <<>> THEN <<i>>
    ELSE IF priorityOrder(acts[Head(sorted)].priority) >= priorityOrder(acts[i].priority)
         THEN <<Head(sorted)>> \o InsertStable(acts, Tail(sorted), i)
         ELSE <<i>> \o sorted

RECURSIVE SortPrefix(_, _)
SortPrefix(acts, n) ==
    IF n = 0 THEN <<>>
    ELSE InsertStable(acts, SortPrefix(acts, n - 1), n)

sortedActivities(acts) == SortPrefix(acts, Len(acts))

\* activity.estimatedDuration || 30  (a missing duration is modelled as 0)
durationOf(a) == IF a.estimatedDuration = 0 THEN 30 ELSE a.estimatedDuration

Stamp(a, from, to) ==
    [a EXCEPT !.scheduledTime = minutesToTime(from),
              !.scheduledEndTime = minutesToTime(to)]

\* a variant that skips an activity that does not fit and goes on
RECURSIVE ScheduleLoopSkipping(_, _, _, _, _)
ScheduleLoopSkipping(acts, order, currentTime, endTime, out) ==
    IF order = <<>> THEN [activities |-> acts, scheduled |-> out]
    ELSE LET i == Head(order)
             duration == durationOf(acts[i])
         IN IF currentTime + duration > endTime
            THEN ScheduleLoopSkipping(acts, Tail(order), currentTime, endTime,
                                      out)
            ELSE LET a == Stamp(acts[i], currentTime, currentTime + duration)
                 IN ScheduleLoopSkipping([acts EXCEPT ![i] = a], Tail(order),
                                         currentTime + duration + breakDuration,
                                         endTime, Append(out, a))

\* a variant that starts an activity where the previous one ended
RECURSIVE ScheduleLoopNoBreak(_, _, _, _, _)
ScheduleLoopNoBreak(acts, order, currentTime, endTime, out) ==
    IF order = <<>> THEN [activities |-> acts, scheduled |-> out]
    ELSE LET i == Head(order)
             duration == durationOf(acts[i])
         IN IF currentTime + duration > endTime
            THEN [activities |-> acts, scheduled |-> out]
            ELSE LET a == Stamp(acts[i], currentTime, currentTime + duration)
                 IN ScheduleLoopNoBreak([acts EXCEPT ![i] = a], Tail(order),
                                        currentTime + duration, endTime,
                                        Append(out, a))

\* The for-loop of scheduleActivities over the sorted positions `order`,
\* with cursor currentTime.  acts is the (mutated in place) input array,
\* out the `scheduled` array built so far.
RECURSIVE ScheduleLoop(_, _, _, _, _)
ScheduleLoop(acts, order, currentTime, endTime, out) ==
    IF order = <<>> THEN [activities |-> acts, scheduled |-> out]
    ELSE LET i == Head(order)
             duration == durationOf(acts[i])
         IN IF currentTime + duration > endTime
            THEN IF duration <= 15
                 THEN LET a == Stamp(acts[i], currentTime,
                                     Min(currentTime + duration, endTime))
                      IN [activities |-> [acts EXCEPT ![i] = a],
                          scheduled |-> Append(out, a)]
                 ELSE [activities |-> acts, scheduled |-> out]
            ELSE LET a == Stamp(acts[i], currentTime, currentTime + duration)
                 IN ScheduleLoop([acts EXCEPT ![i] = a], Tail(order),
                                 currentTime + duration + breakDuration,
                                 endTime, Append(out, a))

scheduleActivities(acts, slot) ==
    IF Len(acts) = 0 THEN [activities |-> acts, scheduled |-> <<>>]
    ELSE ScheduleLoop(acts, sortedActivities(acts),
                      timeToMinutes(slot.startTime),
                      timeToMinutes(slot.endTime), <<>>)

----------------------------------------------------------------------------
(* Text: a tuple of one-character strings.  The day keyword is written    *)
(* "T","h","u" (the last letter stands for the accented vowel).            *)

IsDigit(c) == c \in {"0", "1", "2", "3", "4", "5", "6", "7", "8", "9"}

DigitVal(c) ==
    CASE c = "0" -> 0 [] c = "1" -> 1 [] c = "2" -> 2 [] c = "3" -> 3
      [] c = "4" -> 4 [] c = "5" -> 5 [] c = "6" -> 6 [] c = "7" -> 7
      [] c = "8" -> 8 [] c = "9" -> 9

\* the regular-expression class \s, and what trim() strips
IsSpace(c) == c \in {" ", "\t", "\n"}

\* the class [A-Z]
IsUpper(c) == c \in {"A", "B", "C", "E", "H", "T", "U"}

\* the class of the hyphen and the en dash (written "--")
IsDash(c) == c \in {"-", "--"}

\* letter comparison under the /i flag
Lower(c) ==
    CASE c = "T" -> "t" [] c = "H" -> "h" [] c = "U" -> "u" [] OTHER -> c

SubStr(s, from, to) == [k \in 1..(to - from + 1) |-> s[from + k - 1]]

\* String.prototype.trim
RECURSIVE TrimLeft(_)
TrimLeft(s) ==
    IF s # <<>> /\ IsSpace(Head(s)) THEN TrimLeft(Tail(s)) ELSE s

RECURSIVE TrimRight(_)
TrimRight(s) ==
    IF s # <<>> /\ IsSpace(s[Len(s)])
    THEN TrimRight(SubStr(s, 1, Len(s) - 1)) ELSE s

trim(s) == TrimRight(TrimLeft(s))

\* str.split(/[;\n]/): cur is the piece being read
RECURSIVE SplitParts(_, _)
SplitParts(s, cur) ==
    IF s = <<>> THEN <<cur>>
    ELSE IF Head(s) \in {";", "\n"}
         THEN <<cur>> \o SplitParts(Tail(s), <<>>)
         ELSE SplitParts(Tail(s), Append(cur, Head(s)))

\* .map(s => s.trim()).filter(s => s.length > 0)
RECURSIVE TrimNonEmpty(_)
TrimNonEmpty(parts) ==
    IF parts = <<>> THEN <<>>
    ELSE LET t == trim(Head(parts))
         IN (IF t = <<>> THEN <<>> ELSE <<t>>) \o TrimNonEmpty(Tail(parts))

\* first position >= i that does not hold a digit (greedy \d+ or \d*)
RECURSIVE DigitRunEnd(_, _)
DigitRunEnd(s, i) ==
    IF i <= Len(s) /\ IsDigit(s[i]) THEN DigitRunEnd(s, i + 1) ELSE i

\* first position >= i that does not hold whitespace (greedy \s*)
RECURSIVE SpaceRunEnd(_, _)
SpaceRunEnd(s, i) ==
    IF i <= Len(s) /\ IsSpace(s[i]) THEN SpaceRunEnd(s, i + 1) ELSE i

\* parseInt(digits, 10) of s[from..to-1]
RECURSIVE parseInt(_, _, _)
parseInt(s, from, to) ==
    IF to <= from THEN 0
    ELSE 10 * parseInt(s, from, to - 1) + DigitVal(s[to - 1])

HasDigitAt(s, i) == i <= Len(s) /\ IsDigit(s[i])

FirstOf(S) == CHOOSE i \in S : \A j \in S : i <= j

----------------------------------------------------------------------------
(* ScheduleManager.parseSingleScheduleEntry / parseScheduleString *)

NoDay == 0     \* day: null (and an absent property), falsy like 0

\* /Thu\s*(\d+)/i matches at position i
DayMatchAt(s, i) ==
    /\ i + 2 <= Len(s)
    /\ Lower(s[i]) = "t" /\ Lower(s[i + 1]) = "h" /\ Lower(s[i + 2]) = "u"
    /\ HasDigitAt(s, SpaceRunEnd(s, i + 3))

\* Step 1: the day of the first match, kept only when 2 <= dayNum <= 7
extractDay(str) ==
    LET M == {i \in 1..Len(str) : DayMatchAt(str, i)}
    IN IF M = {} THEN NoDay
       ELSE LET i == FirstOf(M)
                d == SpaceRunEnd(str, i + 3)
                dayNum == parseInt(str, d, DigitRunEnd(str, d))
            IN IF dayNum >= 2 /\ dayNum <= 7 THEN dayNum ELSE NoDay

\* the text searched for the period range: after the first comma, if any
periodStrOf(str) ==
    LET C == {i \in 1..Len(str) : str[i] = ","}
    IN IF C = {} THEN str ELSE SubStr(str, FirstOf(C) + 1, Len(str))

\* /(\d+)\s*[-–]\s*(\d+)/ matches at position i
PeriodMatchAt(s, i) ==
    /\ HasDigitAt(s, i)
    /\ LET dash == SpaceRunEnd(s, DigitRunEnd(s, i))
       IN /\ dash <= Len(s) /\ IsDash(s[dash])
          /\ HasDigitAt(s, SpaceRunEnd(s, dash + 1))

\* a variant that keeps the two bounds of the range only
extractPeriodsBoundsOnly(str) ==
    LET ps == periodStrOf(str)
        M == {i \in 1..Len(ps) : PeriodMatchAt(ps, i)}
    IN IF M = {} THEN <<>>
       ELSE LET i == FirstOf(M)
                e1 == DigitRunEnd(ps, i)
                b2 == SpaceRunEnd(ps, SpaceRunEnd(ps, e1) + 1)
                start == parseInt(ps, i, e1)
                end == parseInt(ps, b2, DigitRunEnd(ps, b2))
            IN IF start >= 1 /\ start <= 10 /\ end >= 1 /\ end <= 10
                  /\ start <= end
               THEN <<start, end>>
               ELSE <<>>

\* Step 2: the inclusive run start..end of the first match, when valid
extractPeriods(str) ==
    LET ps == periodStrOf(str)
        M == {i \in 1..Len(ps) : PeriodMatchAt(ps, i)}
    IN IF M = {} THEN <<>>
       ELSE LET i == FirstOf(M)
                e1 == DigitRunEnd(ps, i)
                b2 == SpaceRunEnd(ps, SpaceRunEnd(ps, e1) + 1)
                start == parseInt(ps, i, e1)
                end == parseInt(ps, b2, DigitRunEnd(ps, b2))
            IN IF start >= 1 /\ start <= 10 /\ end >= 1 /\ end <= 10
                  /\ start <= end
               THEN [k \in 1..(end - start + 1) |-> start + k - 1]
               ELSE <<>>

AtEndOrSpace(s, i) == i > Len(s) \/ IsSpace(s[i])

\* end (exclusive) of a match of /([A-Z]\d+\.?\d*|[A-Z]\d+)(?:\s|$)/ whose
\* group starts at i; 0 when there is none
RoomEndAt(s, i) ==
    IF ~(IsUpper(s[i]) /\ HasDigitAt(s, i + 1)) THEN 0
    ELSE LET j == DigitRunEnd(s, i + 1)
         IN IF j <= Len(s) /\ s[j] = "."
            THEN LET k == DigitRunEnd(s, j + 1)
                 IN IF AtEndOrSpace(s, k) THEN k ELSE 0
            ELSE IF AtEndOrSpace(s, j) THEN j ELSE 0

\* Step 3: the first room token
extractRoom(str) ==
    LET M == {i \in 1..Len(str) : RoomEndAt(str, i) # 0}
    IN IF M = {} THEN <<>>
       ELSE LET i == FirstOf(M) IN SubStr(str, i, RoomEndAt(str, i) - 1)

parseSingleScheduleEntry(partStr) ==
    LET str == trim(partStr)
    IN [day |-> extractDay(str), periods |-> extractPeriods(str),
        room |-> extractRoom(str)]

\* a variant that keeps every part in which a day was found
RECURSIVE ParsePartsKeepDayOnly(_)
ParsePartsKeepDayOnly(parts) ==
    IF parts = <<>> THEN <<>>
    ELSE LET result == parseSingleScheduleEntry(Head(parts))
         IN (IF result.day # NoDay THEN <<result>> ELSE <<>>)
            \o ParsePartsKeepDayOnly(Tail(parts))

\* a variant that gives up at the first part it cannot parse
RECURSIVE ParsePartsStopAtInvalid(_)
ParsePartsStopAtInvalid(parts) ==
    IF parts = <<>> THEN <<>>
    ELSE LET result == parseSingleScheduleEntry(Head(parts))
         IN IF result.day # NoDay /\ Len(result.periods) > 0
            THEN <<result>> \o ParsePartsStopAtInvalid(Tail(parts))
            ELSE <<>>

\* the forEach over scheduleParts: keep result.day && result.periods.length > 0
RECURSIVE ParseParts(_)
ParseParts(parts) ==
    IF parts = <<>> THEN <<>>
    ELSE LET result == parseSingleScheduleEntry(Head(parts))
         IN (IF result.day # NoDay /\ Len(result.periods) > 0
             THEN <<result>> ELSE <<>>) \o ParseParts(Tail(parts))

parseScheduleString(scheduleStr) ==
    IF trim(scheduleStr) = <<>> THEN <<>>
    ELSE ParseParts(TrimNonEmpty(SplitParts(trim(scheduleStr), <<>>)))

----------------------------------------------------------------------------
(* Courses.  course.scheduleInfo is an Array of entries when written by    *)
(* processCourses; records written by earlier revisions hold one object    *)
(* {day, periods, room}, or nothing.  kind tells the shapes apart; reading *)
(* .day or .periods of an Array gives undefined (NoDay, no periods).       *)

ArrayInfo(entries) ==
    [kind |-> "array", entries |-> entries, day |-> NoDay, periods |-> <<>>]

ObjectInfo(day, periods) ==
    [kind |-> "object", entries |-> <<>>, day |-> day, periods |-> periods]

NoInfo == [kind |-> "none", entries |-> <<>>, day |-> NoDay, periods |-> <<>>]

\* courses.map((course, index) => ({...course, scheduleInfo, id}))
processCourses(rows) ==
    [index \in 1..Len(rows) |->
        [schedule |-> rows[index].schedule,
         scheduleInfo |-> ArrayInfo(parseScheduleString(rows[index].schedule)),
         id |-> index]]

\* entry => entry.day && entry.periods && entry.periods.length > 0
EntryIsValid(entry) == entry.day # NoDay /\ Len(entry.periods) > 0

\* the validCourses filter of handleScheduleUpload / processCourses
HasValidSchedule(c) ==
    /\ c.scheduleInfo.kind = "array"
    /\ Len(c.scheduleInfo.entries) > 0
    /\ \E k \in 1..Len(c.scheduleInfo.entries) :
           EntryIsValid(c.scheduleInfo.entries[k])

----------------------------------------------------------------------------
(* ScheduleManager.generateWeeklySchedule *)

EmptyWeeklySchedule == [p \in 0..9 |-> [d \in 0..5 |-> <<>>]]

\* for (const period of periods): push a copy of the course when
\* 0 <= period - 1 < 10
RECURSIVE GenAddPeriods(_, _, _, _)
GenAddPeriods(schedule, id, dayIndex, periods) ==
    IF periods = <<>> THEN schedule
    ELSE LET periodIndex == Head(periods) - 1
             next == IF periodIndex >= 0 /\ periodIndex < 10
                     THEN [schedule EXCEPT ![periodIndex][dayIndex] =
                                               Append(@, id)]
                     ELSE schedule
         IN GenAddPeriods(next, id, dayIndex, Tail(periods))

\* for (const course of courses)
RECURSIVE GenAddCourses(_, _)
GenAddCourses(schedule, cs) ==
    IF cs = <<>> THEN schedule
    ELSE LET course == Head(cs)
             day == course.scheduleInfo.day
             periods == course.scheduleInfo.periods
             skip == \/ course.scheduleInfo.kind = "none"
                     \/ day = NoDay \/ day < 2 \/ day > 7
                     \/ Len(periods) = 0
             next == IF skip THEN schedule
                     ELSE GenAddPeriods(schedule, course.id, day - 2, periods)
         IN GenAddCourses(next, Tail(cs))

\* the verification pass indexes schedule[period - 1][day - 2] for every
\* course with a day: outside the 10x6 array that read throws a TypeError
GenVerifyThrows(cs) ==
    \E k \in 1..Len(cs) :
        /\ cs[k].scheduleInfo.kind # "none"
        /\ cs[k].scheduleInfo.day # NoDay
        /\ \E j \in 1..Len(cs[k].scheduleInfo.periods) :
               \/ cs[k].scheduleInfo.periods[j] - 1 \notin 0..9
               \/ cs[k].scheduleInfo.day - 2 \notin 0..5

generateWeeklySchedule(cs) ==
    IF GenVerifyThrows(cs)
    THEN [threw |-> TRUE, schedule |-> EmptyWeeklySchedule]
    ELSE [threw |-> FALSE, schedule |-> GenAddCourses(EmptyWeeklySchedule, cs)]

----------------------------------------------------------------------------
(* ScheduleRenderer.renderWeeklySchedule: the period -> day -> courses map *)

EmptyScheduleMap == [p \in 1..10 |-> [d \in 2..7 |-> <<>>]]

\* periods.forEach(period => ...)
RECURSIVE MapAddPeriods(_, _, _, _)
MapAddPeriods(map, id, day, periods) ==
    IF periods = <<>> THEN map
    ELSE LET periodNum == Head(periods)
             next == IF periodNum >= 1 /\ periodNum <= 10
                        /\ day >= 2 /\ day <= 7
                     THEN [map EXCEPT ![periodNum][day] = Append(@, id)]
                     ELSE map
         IN MapAddPeriods(next, id, day, Tail(periods))

\* Mutant of MapAddEntries: an invalid entry ends the walk over the
\* course's entries instead of being skipped alone.
RECURSIVE MapAddEntriesStopAtInvalid(_, _, _)
MapAddEntriesStopAtInvalid(map, id, entries) ==
    IF entries = <<>> THEN map
    ELSE LET scheduleEntry == Head(entries)
             day == scheduleEntry.day
             skip == \/ day = NoDay \/ day < 2 \/ day > 7
                     \/ Len(scheduleEntry.periods) = 0
         IN IF skip THEN map
            ELSE MapAddEntriesStopAtInvalid(
                     MapAddPeriods(map, id, day, scheduleEntry.periods),
                     id, Tail(entries))

\* course.scheduleInfo.forEach(scheduleEntry => ...)
RECURSIVE MapAddEntries(_, _, _)
MapAddEntries(map, id, entries) ==
    IF entries = <<>> THEN map
    ELSE LET scheduleEntry == Head(entries)
             day == scheduleEntry.day
             skip == \/ day = NoDay \/ day < 2 \/ day > 7
                     \/ Len(scheduleEntry.periods) = 0
             next == IF skip THEN map
                     ELSE MapAddPeriods(map, id, day, scheduleEntry.periods)
         IN MapAddEntries(next, id, Tail(entries))

\* courses.forEach(course => ...)
RECURSIVE MapAddCourses(_, _)
MapAddCourses(map, cs) ==
    IF cs = <<>> THEN map
    ELSE LET course == Head(cs)
             skip == \/ course.scheduleInfo.kind # "array"
                     \/ Len(course.scheduleInfo.entries) = 0
             next == IF skip THEN map
                     ELSE MapAddEntries(map, course.id,
                                        course.scheduleInfo.entries)
         IN MapAddCourses(next, Tail(cs))

\* returns before building anything when schedule.courses is empty
renderWeeklySchedule(cs) ==
    IF Len(cs) = 0 THEN [rendered |-> FALSE, scheduleMap |-> EmptyScheduleMap]
    ELSE [rendered |-> TRUE, scheduleMap |-> MapAddCourses(EmptyScheduleMap, cs)]

----------------------------------------------------------------------------
(* StorageManager: the object store, read in key order *)

RECURSIVE SortedById(_)
SortedById(S) ==
    IF S = {} THEN <<>>
    ELSE LET r == CHOOSE x \in S : \A y \in S : x.id <= y.id
         IN <<r>> \o SortedById(S \ {r})

\* getAllItems('schedules')
getAllItems == SortedById(store)

\* store.add(item): the record gets the next key
addItem(item) == store \cup {[item EXCEPT !.id = nextId]}

\* store.delete(id)
deleteItem(id) == {r \in store : r.id # id}

NoSchedule == [id |-> 0, type |-> "none", createdAt |-> 0, courses |-> <<>>]

----------------------------------------------------------------------------
(* DailyActivityManager.getClassScheduleForDate *)

\* date.getDay() is 0 for Sunday, 1 for Monday, ..., 6 for Saturday
dayNumberOf(weekday) == IF weekday = 0 THEN 7 ELSE weekday

getTimeFromPeriod(period) ==
    IF period <= 5
    THEN minutesToTime(7 * 60 + 0 + (period - 1) * 60)
    ELSE minutesToTime(12 * 60 + 30 + (period - 6) * 60)

SeqMin(s) == CHOOSE x \in Range(s) : \A y \in Range(s) : x <= y
SeqMax(s) == CHOOSE x \in Range(s) : \A y \in Range(s) : x >= y

\* dayEntries.flatMap(entry => entry.periods)
RECURSIVE FlatPeriods(_)
FlatPeriods(entries) ==
    IF entries = <<>> THEN <<>>
    ELSE Head(entries).periods \o FlatPeriods(Tail(entries))

\* classSchedules.sort((a, b) => b.createdAt - a.createdAt)[0]: the sort is
\* stable, so the first of the newest schedules in array order
latestSchedule(classSchedules) ==
    LET newest == {i \in 1..Len(classSchedules) :
                     \A j \in 1..Len(classSchedules) :
                        classSchedules[j].createdAt <= classSchedules[i].createdAt}
    IN classSchedules[FirstOf(newest)]

MeetsOnDay(course, dayNumber) ==
    /\ course.scheduleInfo.kind = "array"
    /\ \E k \in 1..Len(course.scheduleInfo.entries) :
           course.scheduleInfo.entries[k].day = dayNumber

\* dayCourses.map(course => ({...course, dayEntries, periods, startTime, ...}))
CourseOccurrence(course, dayNumber) ==
    LET dayEntries == SelectSeq(course.scheduleInfo.entries,
                                LAMBDA entry : entry.day = dayNumber)
        periods == FlatPeriods(dayEntries)
        minPeriod == SeqMin(periods)
        maxPeriod == SeqMax(periods)
    IN [id |-> course.id,
        dayEntries |-> dayEntries,
        periods |-> periods,
        startTime |-> getTimeFromPeriod(minPeriod),
        endTime |-> getTimeFromPeriod(maxPeriod + 1),
        duration |-> (maxPeriod - minPeriod + 1) * 50]

getClassScheduleForDate(scheds, weekday) ==
    LET dayNumber == dayNumberOf(weekday)
        classSchedules == SelectSeq(scheds, LAMBDA sch : sch.type = "class")
    IN IF Len(classSchedules) = 0 THEN <<>>
       ELSE LET matching == SelectSeq(latestSchedule(classSchedules).courses,
                                      LAMBDA c : MeetsOnDay(c, dayNumber))
            IN [k \in 1..Len(matching) |->
                   CourseOccurrence(matching[k], dayNumber)]

----------------------------------------------------------------------------
(* Dates: a Date is the day it falls on, counted from a Sunday, and the
   minutes since its local midnight *)

DateAt(day, minutes) == [day |-> day, minutes |-> minutes]

\* date.getDay(): 0 = Sunday, 1 = Monday, ..., 6 = Saturday
getDay(date) == date.day % 7

\* formatDate keeps year, month and day of month and drops the time of day
formatDate(date) == date.day

\* date.getTime(), in minutes
getTime(date) == date.day * 1440 + date.minutes

----------------------------------------------------------------------------
(* DailyActivityManager.calculateTimeSlots and createDailyActivitySchedule *)

addMinutes(timeStr, minutes) ==
    LET totalMinutes == timeToMinutes(timeStr) + minutes
    IN <<totalMinutes \div 60, JsRem(totalMinutes, 60)>>

subtractMinutes(timeStr, minutes) == addMinutes(timeStr, 0 - minutes)

calculateDuration(startTime, endTime) ==
    timeToMinutes(endTime) - timeToMinutes(startTime)

\* a variant that takes the first class of the list for the earliest one
firstClass(classCourses) == classCourses[1]

\* reduce without an initial value: a later course replaces the kept one
\* only when it starts strictly earlier
earliestClass(classCourses) ==
    classCourses[FirstOf({i \in 1..Len(classCourses) :
        \A j \in 1..Len(classCourses) :
            timeToMinutes(classCourses[i].startTime)
                <= timeToMinutes(classCourses[j].startTime)})]

latestClass(classCourses) ==
    classCourses[FirstOf({i \in 1..Len(classCourses) :
        \A j \in 1..Len(classCourses) :
            timeToMinutes(classCourses[i].endTime)
                >= timeToMinutes(classCourses[j].endTime)})]

\* calculateTimeSlots from the point where classCourses is known
calculateTimeSlotsFor(classCourses) ==
    LET hasClassToday == Len(classCourses) > 0
        morningStart == <<5, 0>>
        afternoonEnd == <<23, 0>>
        morningEnd == IF hasClassToday
                      THEN subtractMinutes(earliestClass(classCourses).startTime, 30)
                      ELSE <<12, 0>>
        afternoonStart == IF hasClassToday
                          THEN addMinutes(latestClass(classCourses).endTime, 30)
                          ELSE <<12, 0>>
    IN [hasClassToday |-> hasClassToday,
        morningSlot |-> [startTime |-> morningStart, endTime |-> morningEnd,
                         duration |-> calculateDuration(morningStart, morningEnd)],
        afternoonSlot |-> [startTime |-> afternoonStart, endTime |-> afternoonEnd,
                           duration |-> calculateDuration(afternoonStart, afternoonEnd)],
        classCourses |-> classCourses]

\* classCourses defaults to getClassScheduleForDate(date)
calculateTimeSlots(scheds, date) ==
    calculateTimeSlotsFor(getClassScheduleForDate(scheds, getDay(date)))

NoSlot == "null"     \* timeSlot: null, the form's 'auto'

\* the activities.forEach of createDailyActivitySchedule
IsMorningActivity(activity, timeSlots) ==
    IF activity.scheduledTime = NoTime
    THEN \/ activity.timeSlot = "morning"
         \/ /\ activity.timeSlot # "afternoon"
            /\ activity.type \in {"exercise", "meal"}
    ELSE timeToMinutes(activity.scheduledTime)
             < timeToMinutes(timeSlots.morningSlot.endTime)

RECURSIVE SumStudyTime(_)
SumStudyTime(acts) ==
    IF acts = <<>> THEN 0
    ELSE (IF Head(acts).type = "study" THEN Head(acts).estimatedDuration ELSE 0)
         + SumStudyTime(Tail(acts))

\* the schedule object createDailyActivitySchedule hands to addItem
createDailyActivitySchedule(scheds, date, acts) ==
    LET dateStr == formatDate(date)
        dayOfWeek == getDay(date)
        dayNumber == dayNumberOf(dayOfWeek)
        timeSlots == calculateTimeSlots(scheds, date)
    IN [id |-> 0,
        type |-> "daily-activity",
        date |-> dateStr,
        dayOfWeek |-> dayNumber,
        hasClassToday |-> timeSlots.hasClassToday,
        morningSchedule |->
            [startTime |-> timeSlots.morningSlot.startTime,
             endTime |-> timeSlots.morningSlot.endTime,
             activities |-> SelectSeq(acts,
                 LAMBDA a : IsMorningActivity(a, timeSlots))],
        afternoonSchedule |->
            [startTime |-> timeSlots.afternoonSlot.startTime,
             endTime |-> timeSlots.afternoonSlot.endTime,
             activities |-> SelectSeq(acts,
                 LAMBDA a : ~IsMorningActivity(a, timeSlots))],
        totalStudyTime |-> SumStudyTime(acts),
        completedActivities |-> 0,
        totalActivities |-> Len(acts)]

\* getAllItems, then find: the first daily record of that date, 0 if none
getDailyActivitySchedule(date) ==
    LET found == {i \in 1..Len(getAllItems) :
                     /\ getAllItems[i].type = "daily-activity"
                     /\ getAllItems[i].date = formatDate(date)}
    IN IF found = {} THEN 0 ELSE getAllItems[FirstOf(found)].id

----------------------------------------------------------------------------
(* ScheduleValidator *)

minDuration == 15
maxDuration == 480

NaN == -1     \* parseInt of a field that holds no number

Max(a, b) == IF a >= b THEN a ELSE b

\* the errors array of validateActivity, one tag per message, in push order
\* (topic and content are not modelled)
activityErrors(activity) ==
    (IF activity.id = 0 THEN <<"id">> ELSE <<>>)
    \o (IF activity.type = "" THEN <<"type">> ELSE <<>>)
    \o (IF activity.estimatedDuration = NaN THEN <<"duration-nan">>
        ELSE IF activity.estimatedDuration < minDuration THEN <<"duration-min">>
        ELSE IF activity.estimatedDuration > maxDuration THEN <<"duration-max">>
        ELSE <<>>)
    \o (IF activity.priority \notin {"", "high", "medium", "low"}
        THEN <<"priority">> ELSE <<>>)
    \o (IF activity.timeSlot \notin {NoSlot, "", "morning", "afternoon", "auto"}
        THEN <<"timeSlot">> ELSE <<>>)
    \o (IF activity.type = "study" /\ activity.courseName = ""
        THEN <<"courseName">> ELSE <<>>)

validateActivity(activity) ==
    [isValid |-> activityErrors(activity) = <<>>,
     errors |-> activityErrors(activity)]

\* "Activity <index>: ..." for every invalid activity, in list order
RECURSIVE ActivityErrorLines(_, _)
ActivityErrorLines(acts, index) ==
    IF index > Len(acts) THEN <<>>
    ELSE (IF validateActivity(acts[index]).isValid THEN <<>>
          ELSE <<[index |-> index,
                  errors |-> validateActivity(acts[index]).errors,
                  ids |-> <<>>]>>)
         \o ActivityErrorLines(acts, index + 1)

\* a variant that remembers the first repeated id only
RECURSIVE DuplicateIdsFirstOnly(_, _, _, _)
DuplicateIdsFirstOnly(acts, index, seenIds, duplicateIds) ==
    IF index > Len(acts) THEN duplicateIds
    ELSE LET id == acts[index].id
         IN IF id = 0
            THEN DuplicateIdsFirstOnly(acts, index + 1, seenIds, duplicateIds)
            ELSE IF id \in seenIds
            THEN DuplicateIdsFirstOnly(acts, index + 1, seenIds,
                     IF duplicateIds = <<>> THEN <<id>> ELSE duplicateIds)
            ELSE DuplicateIdsFirstOnly(acts, index + 1, seenIds \cup {id},
                                       duplicateIds)

\* the Set duplicateIds, in insertion order; an activity without id is not
\* looked at
RECURSIVE DuplicateIds(_, _, _, _)
DuplicateIds(acts, index, seenIds, duplicateIds) ==
    IF index > Len(acts) THEN duplicateIds
    ELSE LET id == acts[index].id
         IN IF id = 0
            THEN DuplicateIds(acts, index + 1, seenIds, duplicateIds)
            ELSE IF id \in seenIds
            THEN DuplicateIds(acts, index + 1, seenIds,
                     IF id \in Range(duplicateIds) THEN duplicateIds
                     ELSE Append(duplicateIds, id))
            ELSE DuplicateIds(acts, index + 1, seenIds \cup {id}, duplicateIds)

\* index 0 marks the line "Duplicate activity IDs: ..."
validateActivities(acts) ==
    IF Len(acts) = 0
    THEN [isValid |-> FALSE,
          errors |-> <<[index |-> 0, errors |-> <<"empty">>, ids |-> <<>>]>>]
    ELSE LET duplicateIds == DuplicateIds(acts, 1, {}, <<>>)
             allErrors ==
                 ActivityErrorLines(acts, 1)
                 \o (IF Len(duplicateIds) > 0
                     THEN <<[index |-> 0, errors |-> <<"duplicates">>,
                             ids |-> duplicateIds]>>
                     ELSE <<>>)
         IN [isValid |-> Len(allErrors) = 0, errors |-> allErrors]

\* sanitizeString.  The tag name is written with the one letter "s":
\* "<","s" stands for "<script" and "<","/","s",">" for "</script>".
IsWordChar(c) == c \in {"s", "a"}

\* /<script\b/ matches at i
ScriptOpensAt(str, i) ==
    /\ i + 1 <= Len(str)
    /\ str[i] = "<" /\ str[i + 1] = "s"
    /\ (i + 2 > Len(str) \/ ~IsWordChar(str[i + 2]))

ScriptClosesAt(str, j) ==
    /\ j + 3 <= Len(str)
    /\ str[j] = "<" /\ str[j + 1] = "/" /\ str[j + 2] = "s" /\ str[j + 3] = ">"

\* [^<]*(?:(?!<\/script>)<[^<]*)* runs up to the first closing tag, which
\* ends the match; 0 when the pattern does not match at i
ScriptMatchEnd(str, i) ==
    IF ~ScriptOpensAt(str, i) THEN 0
    ELSE LET closes == {j \in (i + 2)..Len(str) : ScriptClosesAt(str, j)}
         IN IF closes = {} THEN 0 ELSE FirstOf(closes) + 4

\* .replace(/<script...<\/script>/gi, ''): matches are found left to right
RECURSIVE RemoveScripts(_, _)
RemoveScripts(str, i) ==
    IF i > Len(str) THEN <<>>
    ELSE IF ScriptMatchEnd(str, i) # 0
         THEN RemoveScripts(str, ScriptMatchEnd(str, i))
         ELSE <<str[i]>> \o RemoveScripts(str, i + 1)

\* .replace(/[<>]/g, '')
RemoveAngleBrackets(str) == SelectSeq(str, LAMBDA c : c \notin {"<", ">"})

\* a variant that trims before it removes
sanitizeStringTrimFirst(str) ==
    RemoveAngleBrackets(RemoveScripts(trim(str), 1))

sanitizeString(str) == trim(RemoveAngleBrackets(RemoveScripts(str, 1)))

sanitizeActivity(activity) ==
    [activity EXCEPT !.estimatedDuration =
        Max(minDuration,
            Min(maxDuration, IF @ = NaN \/ @ = 0 THEN minDuration ELSE @))]

validateDate(date, now) ==
    LET today0 == DateAt(now.day, 0)
        maxFutureDate == DateAt(now.day + 365, now.minutes)
    IN IF getTime(date) < getTime(today0)
       THEN [isValid |-> FALSE, errors |-> <<"past">>]
       ELSE IF getTime(date) > getTime(maxFutureDate)
       THEN [isValid |-> FALSE, errors |-> <<"future">>]
       ELSE [isValid |-> TRUE, errors |-> <<>>]

\* parseInt(a.estimatedDuration) || 0, summed
RECURSIVE SumDurations(_)
SumDurations(acts) ==
    IF acts = <<>> THEN 0
    ELSE Head(acts).estimatedDuration + SumDurations(Tail(acts))

\* a variant that counts no break between activities
validateTimeSlotCapacityNoBreaks(acts, slot) ==
    LET totalDuration == SumDurations(acts)
        availableTime == timeToMinutes(slot.endTime) - timeToMinutes(slot.startTime)
        canFit == totalDuration <= availableTime
    IN IF availableTime <= 0
       THEN [isValid |-> FALSE, canFit |-> FALSE]
       ELSE [isValid |-> TRUE, canFit |-> canFit,
             totalDuration |-> totalDuration, availableTime |-> availableTime,
             breakTime |-> 0, requiredTime |-> totalDuration,
             remainingTime |-> availableTime - totalDuration,
             overflow |-> IF canFit THEN 0 ELSE totalDuration - availableTime]

\* a variant that counts a break after every activity
validateTimeSlotCapacityBreakEach(acts, slot) ==
    LET totalDuration == SumDurations(acts)
        availableTime == timeToMinutes(slot.endTime) - timeToMinutes(slot.startTime)
        requiredTime == totalDuration + Len(acts) * 10
        canFit == requiredTime <= availableTime
    IN IF availableTime <= 0
       THEN [isValid |-> FALSE, canFit |-> FALSE]
       ELSE [isValid |-> TRUE, canFit |-> canFit,
             totalDuration |-> totalDuration, availableTime |-> availableTime,
             breakTime |-> Len(acts) * 10, requiredTime |-> requiredTime,
             remainingTime |-> availableTime - requiredTime,
             overflow |-> IF canFit THEN 0 ELSE requiredTime - availableTime]

\* a slot that is not longer than 0 minutes gives {isValid, errors, canFit}
\* only
validateTimeSlotCapacity(acts, slot) ==
    LET totalDuration == SumDurations(acts)
        availableTime == timeToMinutes(slot.endTime) - timeToMinutes(slot.startTime)
        breakTime == Max(0, (Len(acts) - 1) * 10)
        requiredTime == totalDuration + breakTime
        canFit == requiredTime <= availableTime
    IN IF availableTime <= 0
       THEN [isValid |-> FALSE, canFit |-> FALSE]
       ELSE [isValid |-> TRUE, canFit |-> canFit,
             totalDuration |-> totalDuration, availableTime |-> availableTime,
             breakTime |-> breakTime, requiredTime |-> requiredTime,
             remainingTime |-> availableTime - requiredTime,
             overflow |-> IF canFit THEN 0 ELSE requiredTime - availableTime]

----------------------------------------------------------------------------
(* ChillPomodoroApp.createDailySchedule, steps 3 to 11: no await in between *)

\* one checked row of the form: parseInt of its duration field, clamping,
\* the activity object, validateActivity, sanitizeActivity
ActivityOfRow(row, counter) ==
    LET duration == IF row.duration = NaN \/ row.duration < 15 THEN 15
                    ELSE IF row.duration > 480 THEN 480 ELSE row.duration
    IN [id |-> counter,
        type |-> row.type,
        courseName |-> row.courseName,
        priority |-> row.priority,
        estimatedDuration |-> duration,
        timeSlot |-> IF row.timeSlot = "auto" THEN NoSlot ELSE row.timeSlot,
        status |-> "planned",
        scheduledTime |-> NoTime,
        scheduledEndTime |-> NoTime]

\* activityIdCounter advances for a skipped row too
RECURSIVE CollectActivities(_, _)
CollectActivities(rows, counter) ==
    IF rows = <<>> THEN <<>>
    ELSE LET activity == ActivityOfRow(Head(rows), counter)
             rest == CollectActivities(Tail(rows), counter + 1)
         IN IF validateActivity(activity).isValid
            THEN <<sanitizeActivity(activity)>> \o rest
            ELSE rest

InMorningList(a) ==
    \/ a.timeSlot = "morning"
    \/ a.timeSlot = NoSlot /\ a.type \in {"exercise", "meal"}

InAfternoonList(a) ==
    \/ a.timeSlot = "afternoon"
    \/ a.timeSlot = NoSlot /\ a.type \notin {"exercise", "meal"}

\* the outcome of steps 3 to 11 up to the await of addItem: either a reason
\* to return without a record, or the record handed to addItem
PlanDailySchedule(scheds, targetDate, rows, notesValid, proceed) ==
    LET acts == CollectActivities(rows, 1)
        timeSlots == calculateTimeSlots(scheds, targetDate)
        morningActivities == SelectSeq(acts, InMorningList)
        afternoonActivities == SelectSeq(acts, InAfternoonList)
        morningValidation ==
            validateTimeSlotCapacity(morningActivities, timeSlots.morningSlot)
        afternoonValidation ==
            validateTimeSlotCapacity(afternoonActivities, timeSlots.afternoonSlot)
        warned == \/ ~morningValidation.canFit /\ Len(morningActivities) > 0
                  \/ ~afternoonValidation.canFit /\ Len(afternoonActivities) > 0
        scheduledMorning ==
            scheduleActivities(morningActivities, timeSlots.morningSlot).scheduled
        scheduledAfternoon ==
            scheduleActivities(afternoonActivities, timeSlots.afternoonSlot).scheduled
        allScheduledActivities == scheduledMorning \o scheduledAfternoon
    IN IF ~validateActivities(acts).isValid
       THEN [outcome |-> "invalid-activities", schedule |-> NoSchedule]
       ELSE IF ~notesValid
       THEN [outcome |-> "invalid-notes", schedule |-> NoSchedule]
       ELSE IF warned /\ ~proceed
       THEN [outcome |-> "declined", schedule |-> NoSchedule]
       ELSE IF Len(allScheduledActivities) = 0
       THEN [outcome |-> "nothing-scheduled", schedule |-> NoSchedule]
       ELSE [outcome |-> "adding",
             schedule |-> createDailyActivitySchedule(scheds, targetDate,
                                                      allScheduledActivities)]

----------------------------------------------------------------------------
(* DailyActivityManager.updateActivityStatus *)

\* activities.find(a => a.id === activityId); activity.status = status
updateActivity(acts, activityId, status) ==
    LET hits == {k \in 1..Len(acts) : acts[k].id = activityId}
    IN IF hits = {}
       THEN [updated |-> FALSE, activities |-> acts]
       ELSE [updated |-> TRUE,
             activities |-> [acts EXCEPT ![FirstOf(hits)].status = status]]

\* a variant that counts every activity that is no longer planned
CountNotPlanned(acts) ==
    Cardinality({k \in 1..Len(acts) : acts[k].status # "planned"})

\* allActivities.filter(a => a.status === 'completed').length
CountCompleted(acts) ==
    Cardinality({k \in 1..Len(acts) : acts[k].status = "completed"})

\* what updateActivityStatus does to the object getItem gave it, up to the
\* updateItem call (the updatedAt stamp is not modelled)
applyActivityStatus(schedule, activityId, status) ==
    LET morning == updateActivity(schedule.morningSchedule.activities,
                                  activityId, status)
        afternoon ==
            IF morning.updated
            THEN [updated |-> FALSE,
                  activities |-> schedule.afternoonSchedule.activities]
            ELSE updateActivity(schedule.afternoonSchedule.activities,
                                activityId, status)
        allActivities == morning.activities \o afternoon.activities
    IN [schedule EXCEPT !.morningSchedule.activities = morning.activities,
                        !.afternoonSchedule.activities = afternoon.activities,
                        !.completedActivities = CountCompleted(allActivities)]

\* StorageManager.updateItem: store.put(item) replaces the record of that key
updateItem(item) == {r \in store : r.id # item.id} \cup {item}

----------------------------------------------------------------------------
(* Settings.getSessionDuration, StorageManager.addSession *)

\* new Settings()
DefaultSettings ==
    [workDuration |-> 25, shortBreakDuration |-> 5, longBreakDuration |-> 15,
     longBreakInterval |-> 4, autoStartBreaks |-> FALSE,
     autoStartPomodoros |-> FALSE]

getSessionDuration(s, sessionType) ==
    CASE sessionType = "work" -> s.workDuration
      [] sessionType = "shortBreak" -> s.shortBreakDuration
      [] sessionType = "longBreak" -> s.longBreakDuration
      [] OTHER -> s.workDuration

\* the state addSession starts from when chillpomodoro-state is absent
EmptyTimerState ==
    [completedPomodoros |-> 0, totalWorkTime |-> 0, totalBreakTime |-> 0,
     currentStreak |-> 0, sessionHistory |-> <<>>]

historyLimit == 100

\* updateStreak when every session of the history carries today's date
updateStreak(state) ==
    IF state.sessionHistory = <<>> THEN state
    ELSE IF \E k \in 1..Len(state.sessionHistory) :
                /\ state.sessionHistory[k].type = "work"
                /\ state.sessionHistory[k].completed
         THEN IF state.currentStreak = 0
              THEN [state EXCEPT !.currentStreak = 1]
              ELSE state
         ELSE [state EXCEPT !.currentStreak = 0]

\* saved is the parsed chillpomodoro-state: <<>> for null, else <<state>>
addSession(saved, session) ==
    LET state == IF saved = <<>> THEN EmptyTimerState ELSE saved[1]
        unshifted == <<session>> \o state.sessionHistory
        history == IF Len(unshifted) > historyLimit
                   THEN SubSeq(unshifted, 1, historyLimit)
                   ELSE unshifted
        counted ==
            IF session.type = "work" /\ session.completed
            THEN [state EXCEPT !.completedPomodoros = @ + 1,
                               !.totalWorkTime = @ + session.duration]
            ELSE IF session.type # "work"
            THEN [state EXCEPT !.totalBreakTime = @ + session.duration]
            ELSE state
    IN updateStreak([counted EXCEPT !.sessionHistory = history])

----------------------------------------------------------------------------
(* PomodoroTimer: each method maps the timer, the browser's timers and
   localStorage to what they are when the method returns. timerInterval is
   TRUE when it holds an interval handle; startTime is written but never
   read and is left out *)

\* if (this.timerInterval) { clearInterval(...); this.timerInterval = null }
clearTimerInterval(w) ==
    IF w.timer.timerInterval
    THEN [w EXCEPT !.timer.timerInterval = FALSE,
                   !.browser.intervals = @ - 1]
    ELSE w

setSessionTime(w) ==
    [w EXCEPT !.timer.currentTime =
                  getSessionDuration(w.settings, w.timer.currentSession) * 60]

\* a variant that registers a new interval without clearing the old one
startKeepingInterval(w) ==
    LET w1 == IF w.timer.currentTime <= 0 THEN setSessionTime(w) ELSE w
    IN [w1 EXCEPT !.timer.isRunning = TRUE,
                  !.timer.isPaused = FALSE,
                  !.timer.timerInterval = TRUE,
                  !.browser.intervals = @ + 1]

start(w) ==
    LET w1 == IF w.timer.currentTime <= 0 THEN setSessionTime(w) ELSE w
        w2 == clearTimerInterval(w1)
    IN [w2 EXCEPT !.timer.isRunning = TRUE,
                  !.timer.isPaused = FALSE,
                  !.timer.timerInterval = TRUE,
                  !.browser.intervals = @ + 1]

pause(w) ==
    clearTimerInterval([w EXCEPT !.timer.isRunning = FALSE,
                                 !.timer.isPaused = TRUE])

reset(w) ==
    setSessionTime(clearTimerInterval([w EXCEPT !.timer.isRunning = FALSE,
                                                !.timer.isPaused = FALSE]))

\* a variant that always goes to a short break after work
moveToNextSessionAlwaysShort(w) ==
    LET next == IF w.timer.currentSession = "work" THEN "shortBreak"
                ELSE "work"
        w1 == setSessionTime([w EXCEPT !.timer.currentSession = next])
    IN IF \/ next = "work" /\ w.settings.autoStartPomodoros
          \/ next # "work" /\ w.settings.autoStartBreaks
       THEN [w1 EXCEPT !.browser.timeouts = Append(@, 0)]
       ELSE w1

\* setTimeout(() => this.start(), 2000) adds a pending timeout of age 0
moveToNextSession(w) ==
    LET completedInCycle ==
            w.timer.completedPomodoros % w.settings.longBreakInterval
        next == IF w.timer.currentSession = "work"
                THEN IF completedInCycle = 0 /\ w.timer.completedPomodoros > 0
                     THEN "longBreak"
                     ELSE "shortBreak"
                ELSE "work"
        w1 == setSessionTime([w EXCEPT !.timer.currentSession = next])
    IN IF \/ next = "work" /\ w.settings.autoStartPomodoros
          \/ next # "work" /\ w.settings.autoStartBreaks
       THEN [w1 EXCEPT !.browser.timeouts = Append(@, 0)]
       ELSE w1

\* Math.round(actualDuration / 60) of a duration that is not negative; the
\* id and timestamp of the session are not modelled
complete(w) ==
    LET w1 == [clearTimerInterval(w) EXCEPT !.timer.isRunning = FALSE]
        totalSessionTime ==
            getSessionDuration(w.settings, w1.timer.currentSession) * 60
        actualDuration == totalSessionTime - w1.timer.currentTime
        durationInMinutes == (actualDuration + 30) \div 60
        session == [type |-> w1.timer.currentSession,
                    duration |-> durationInMinutes,
                    completed |-> w1.timer.currentTime <= 0,
                    workDuration |-> w.settings.workDuration]
        newState == addSession(w1.localStorage.state, session)
        w2 == [w1 EXCEPT
                 !.timer.completedPomodoros = newState.completedPomodoros,
                 !.timer.totalWorkTime = newState.totalWorkTime,
                 !.timer.totalBreakTime = newState.totalBreakTime,
                 !.timer.currentStreak = newState.currentStreak,
                 !.timer.sessionHistory = newState.sessionHistory,
                 !.localStorage.state = <<newState>>]
    IN moveToNextSession(w2)

skip(w) ==
    complete([clearTimerInterval(w) EXCEPT !.timer.isRunning = FALSE,
                                           !.timer.currentTime = 0])

tick(w) ==
    LET w1 == [w EXCEPT !.timer.currentTime = @ - 1]
    IN IF w1.timer.currentTime <= 0 THEN complete(w1) ELSE w1

setQuickTimer(w, minutes, sessionType) ==
    [reset(w) EXCEPT !.timer.currentTime = minutes * 60,
                     !.timer.currentSession = sessionType]

\* document.hidden is w.browser.hidden; timePassed is the whole number of
\* seconds since the stored hidden time
handleVisibilityChange(w, timePassed) ==
    IF w.browser.hidden /\ w.timer.isRunning
    THEN [w EXCEPT !.localStorage.hiddenTime = TRUE]
    ELSE IF ~w.browser.hidden /\ w.timer.isRunning /\ w.localStorage.hiddenTime
    THEN LET w1 == [w EXCEPT !.timer.currentTime = Max(0, @ - timePassed),
                             !.localStorage.hiddenTime = FALSE]
         IN IF w1.timer.currentTime <= 0 THEN complete(w1) ELSE w1
    ELSE w

\* the constructor: the field defaults, then loadState
NewTimer(s, saved) ==
    LET state == IF saved = <<>> THEN EmptyTimerState ELSE saved[1]
    IN [currentTime |-> getSessionDuration(s, "work") * 60,
        isRunning |-> FALSE,
        isPaused |-> FALSE,
        currentSession |-> "work",
        completedPomodoros |-> state.completedPomodoros,
        totalWorkTime |-> state.totalWorkTime,
        totalBreakTime |-> state.totalBreakTime,
        currentStreak |-> state.currentStreak,
        sessionHistory |-> state.sessionHistory,
        timerInterval |-> FALSE]

----------------------------------------------------------------------------
(* Parts of the state a specification does not exercise stay as constructed *)

GridIdle ==
    /\ rawCourses = <<>>
    /\ courses = <<>>
    /\ coursesFrom = "none"
    /\ gridOp = "none"
    /\ renderResult = renderWeeklySchedule(<<>>)
    /\ weeklyResult = generateWeeklySchedule(<<>>)

StoreIdle ==
    /\ store = {}
    /\ nextId = 1
    /\ schedules = <<>>
    /\ currentSchedule = 0
    /\ clock = 0

UploadIdle ==
    /\ uploadPc = "idle"
    /\ uploadSchedule = NoSchedule
    /\ uploadResult = "none"

QueryIdle ==
    /\ queryDay = -1
    /\ dayCourses = <<>>

NoForm == DateAt(-1, 0)     \* the container shows no create form

IdleInvocation ==
    [pc |-> "idle", date |-> NoForm, existing |-> 0, schedule |-> NoSchedule,
     ownsButton |-> FALSE, outcome |-> "none"]

DailyIdle ==
    /\ today = 0
    /\ formDate = NoForm
    /\ button = "none"
    /\ invocation = [i \in 1..MaxInvocations |-> IdleInvocation]

NoResult == [none |-> TRUE]

CallIdle ==
    /\ callee = "none"
    /\ args = <<>>
    /\ returned = NoResult

\* no updateActivityStatus call is in flight
StatusIdle == statusCall = EmptyBag

TimerIdle ==
    /\ settings = DefaultSettings
    /\ timer = NewTimer(DefaultSettings, <<>>)
    /\ browser = [intervals |-> 0, timeouts |-> <<>>, hidden |-> FALSE]
    /\ localStorage = [state |-> <<>>, hiddenTime |-> FALSE]

SchedIdle ==
    /\ activities = <<>>
    /\ timeSlot = [startTime |-> <<5, 0>>, endTime |-> <<12, 0>>]
    /\ scheduled = <<>>
    /\ schedPc = "input"

----------------------------------------------------------------------------
(* Inputs of the scheduler specification *)

PriorityInputs == {"high", "medium", "low", "none"}
DurationInputs == {0, 15, 60}
SlotEndInputs == {<<4, 50>>, <<5, 0>>, <<5, 10>>, <<6, 30>>, <<7, 30>>}

ActivityFields == [priority : PriorityInputs, estimatedDuration : DurationInputs]

\* The form numbers the collected activities activity-1, activity-2, ...
NewActivity(n, f) ==
    [id |-> n, priority |-> f.priority,
     estimatedDuration |-> f.estimatedDuration,
     scheduledTime |-> NoTime, scheduledEndTime |-> NoTime]

ActivityLists ==
    {[n \in 1..Len(fs) |-> NewActivity(n, fs[n])] :
        fs \in SeqsUpTo(ActivityFields, MaxActivities)}

SchedInit ==
    /\ activities \in ActivityLists
    /\ timeSlot \in [startTime : {<<5, 0>>}, endTime : SlotEndInputs]
    /\ scheduled = <<>>
    /\ schedPc = "input"
    /\ GridIdle /\ StoreIdle /\ UploadIdle /\ QueryIdle /\ DailyIdle /\ StatusIdle /\ TimerIdle /\ CallIdle

ScheduleActivities ==
    /\ schedPc = "input"
    /\ LET r == scheduleActivities(activities, timeSlot)
       IN /\ activities' = r.activities
          /\ scheduled' = r.scheduled
    /\ schedPc' = "done"
    /\ UNCHANGED <<callVars, statusVars, timerVars, timeSlot, gridVars, dailyVars, storeVars, uploadVars, queryVars>>

SchedNext == ScheduleActivities

SpecScheduler == SchedInit /\ [][SchedNext]_vars

----------------------------------------------------------------------------
(* Properties of scheduleActivities *)

slotStartMin == timeToMinutes(timeSlot.startTime)
slotEndMin == timeToMinutes(timeSlot.endTime)

FullyPlaced(a) ==
    timeToMinutes(a.scheduledEndTime) - timeToMinutes(a.scheduledTime)
        = durationOf(a)

\* C2: every returned activity satisfies
\* slotStart <= scheduledTime <= scheduledEndTime <= slotEnd.
C2_StampsInsideSlot ==
    schedPc = "done" =>
        \A k \in 1..Len(scheduled) :
            /\ slotStartMin <= timeToMinutes(scheduled[k].scheduledTime)
            /\ timeToMinutes(scheduled[k].scheduledTime)
                   <= timeToMinutes(scheduled[k].scheduledEndTime)
            /\ timeToMinutes(scheduled[k].scheduledEndTime) <= slotEndMin

\* C4: when the output has as many activities as the input, every activity
\* was placed with its full estimatedDuration.
C4_EqualCountMeansFullDurations ==
    (schedPc = "done" /\ Len(scheduled) = Len(activities)) =>
        \A k \in 1..Len(scheduled) : FullyPlaced(scheduled[k])

\* C5: a slot with endTime <= startTime has zero capacity: the result is
\* empty and no activity is stamped.
C5_NonPositiveSlotSchedulesNothing ==
    (schedPc = "done" /\ slotEndMin <= slotStartMin) =>
        /\ scheduled = <<>>
        /\ \A k \in 1..Len(activities) : activities[k].scheduledTime = NoTime

\* C14: the output is ordered by priority weight descending (high 3,
\* medium 2, low 1, anything else 0), activities of equal weight keep their
\* input order, and the input array keeps its order.
C14_OutputSortedByPriorityStable ==
    schedPc = "done" =>
        /\ \A j, k \in 1..Len(scheduled) :
               j < k =>
                   /\ priorityOrder(scheduled[j].priority)
                          >= priorityOrder(scheduled[k].priority)
                   /\ priorityOrder(scheduled[j].priority)
                          = priorityOrder(scheduled[k].priority)
                      => scheduled[j].id < scheduled[k].id
        /\ \A k \in 1..Len(activities) : activities[k].id = k

\* low, high, high came out as the two high ones in input order, then low
C14_Witness ==
    /\ schedPc = "done"
    /\ Len(activities) = 3
    /\ activities[1].priority = "low"
    /\ activities[2].priority = "high"
    /\ activities[3].priority = "high"
    /\ Len(scheduled) = 3
    /\ scheduled[1].id = 2 /\ scheduled[2].id = 3 /\ scheduled[3].id = 1

\* where the walk stands before the k-th activity of the sorted order
RECURSIVE CursorBefore(_, _)
CursorBefore(order, k) ==
    IF k = 1 THEN slotStartMin
    ELSE CursorBefore(order, k - 1)
         + durationOf(activities[order[k - 1]]) + 10

Misfits(order) ==
    {k \in 1..Len(order) :
        CursorBefore(order, k) + durationOf(activities[order[k]]) > slotEndMin}

\* how many activities the walk returns: all of them, or those in front of
\* the first one that does not fit, plus that one when it lasts <= 15 minutes
ExpectedCount(order) ==
    IF Misfits(order) = {} THEN Len(order)
    ELSE LET f == FirstOf(Misfits(order))
         IN IF durationOf(activities[order[f]]) <= 15 THEN f ELSE f - 1

\* C15: the output is a prefix of the priority-sorted input; the walk stops
\* at the first activity whose full duration does not fit, so such an
\* activity longer than 15 minutes is absent together with all later ones.
C15_OutputIsPrefixOfSortedInput ==
    schedPc = "done" =>
        LET order == sortedActivities(activities)
        IN /\ Len(scheduled) = ExpectedCount(order)
           /\ \A k \in 1..Len(scheduled) : scheduled[k].id = order[k]

\* the second activity did not fit, and the third, which would still have
\* fitted behind the first, is absent too
C15_Witness ==
    /\ schedPc = "done"
    /\ Len(activities) = 3
    /\ Len(scheduled) = 1
    /\ LET order == sortedActivities(activities)
       IN /\ durationOf(activities[order[2]]) > 15
          /\ CursorBefore(order, 2) + durationOf(activities[order[3]])
                 <= slotEndMin

C25_CanFitMeansAllPlaced ==
    (/\ schedPc = "done"
     /\ slotEndMin > slotStartMin
     /\ \A k \in 1..Len(activities) :
            /\ activities[k].estimatedDuration >= minDuration
            /\ activities[k].estimatedDuration <= maxDuration
     /\ validateTimeSlotCapacity(activities, timeSlot).canFit)
    => /\ Len(scheduled) = Len(activities)
       /\ \A k \in 1..Len(scheduled) :
              /\ FullyPlaced(scheduled[k])
              /\ timeToMinutes(scheduled[k].scheduledEndTime) <= slotEndMin

\* 60, 60 and 15 minutes with two breaks need 155 minutes; 60, 15 and 15
\* need 110 and fit the 150 minutes up to 07:30
C25_Witness ==
    /\ schedPc = "done"
    /\ timeSlot.endTime = <<7, 30>>
    /\ Len(activities) = 3
    /\ \A k \in 1..3 : activities[k].estimatedDuration >= minDuration
    /\ validateTimeSlotCapacity(activities, timeSlot).canFit
    /\ validateTimeSlotCapacity(activities, timeSlot).requiredTime = 110
    /\ Len(scheduled) = 3
    /\ scheduled[3].scheduledEndTime = <<6, 50>>


----------------------------------------------------------------------------
(* Inputs of the weekly-grid specification *)

\* "Thu 2,1-2,A1"
TextMonday == <<"T","h","u"," ","2",",","1","-","2",",","A","1">>
\* "Thu 2,1-2,A1;Thu 2,2-3,A1": two meetings sharing day 2, period 2
TextOverlap == TextMonday \o <<";">> \o
               <<"T","h","u"," ","2",",","2","-","3",",","A","1">>
\* "Thu 4,9-10,E2.4\nThu 7,1-1,B2"
TextTwoDays == <<"T","h","u"," ","4",",","9","-","1","0",",","E","2",".","4">>
               \o <<"\n">> \o
               <<"T","h","u"," ","7",",","1","-","1",",","B","2">>
\* "Thu 8,1-2,A1": day out of range
TextBadDay == <<"T","h","u"," ","8",",","1","-","2",",","A","1">>
\* "Thu 3,5-4": start > end
TextBadRange == <<"T","h","u"," ","3",",","5","-","4">>
TextEmpty == <<>>

ScheduleTexts ==
    {TextMonday, TextOverlap, TextTwoDays, TextBadDay, TextBadRange, TextEmpty}

RawCourseLists == SeqsUpTo([schedule : ScheduleTexts], MaxCourses)

\* entries as found in stored records, valid or not
StoredEntries ==
    {[day |-> 2, periods |-> <<1, 2>>, room |-> <<>>],
     [day |-> 2, periods |-> <<2, 3>>, room |-> <<>>],
     [day |-> 8, periods |-> <<1>>, room |-> <<>>],
     [day |-> 3, periods |-> <<0, 10, 11>>, room |-> <<>>],
     [day |-> NoDay, periods |-> <<3>>, room |-> <<>>]}

StoredInfos ==
    {ArrayInfo(es) : es \in SeqsUpTo(StoredEntries, MaxEntries)}
    \cup {ObjectInfo(4, <<1, 2>>), ObjectInfo(9, <<1>>), NoInfo}

StoredCourseLists ==
    {[index \in 1..Len(is) |->
         [schedule |-> <<>>, scheduleInfo |-> is[index], id |-> index]] :
        is \in SeqsUpTo(StoredInfos, MaxCourses)}

GridInit ==
    GridIdle /\ SchedIdle /\ StoreIdle /\ UploadIdle /\ QueryIdle /\ DailyIdle /\ StatusIdle /\ TimerIdle /\ CallIdle

\* XLSXParser.parseClassScheduleFile resolves with the rows of the sheet
ParseClassScheduleFile ==
    /\ coursesFrom = "none"
    /\ rawCourses' \in RawCourseLists
    /\ coursesFrom' = "file"
    /\ UNCHANGED <<callVars, statusVars, timerVars, courses, gridOp, renderResult, weeklyResult, schedVars, dailyVars, storeVars,
                   uploadVars, queryVars>>

ProcessCourses ==
    /\ coursesFrom = "file"
    /\ courses' = processCourses(rawCourses)
    /\ coursesFrom' = "processCourses"
    /\ UNCHANGED <<callVars, statusVars, timerVars, rawCourses, gridOp, renderResult, weeklyResult, schedVars, dailyVars, storeVars,
                   uploadVars, queryVars>>

\* ScheduleManager.getSchedule: courses of a record read back from the store
GetSchedule ==
    /\ coursesFrom = "none"
    /\ courses' \in StoredCourseLists
    /\ coursesFrom' = "store"
    /\ UNCHANGED <<callVars, statusVars, timerVars, rawCourses, gridOp, renderResult, weeklyResult, schedVars, dailyVars, storeVars,
                   uploadVars, queryVars>>

RenderWeeklySchedule ==
    /\ coursesFrom \in {"processCourses", "store"}
    /\ gridOp = "none"
    /\ renderResult' = renderWeeklySchedule(courses)
    /\ gridOp' = "render"
    /\ UNCHANGED <<callVars, statusVars, timerVars, rawCourses, courses, coursesFrom, weeklyResult, schedVars, dailyVars, storeVars,
                   uploadVars, queryVars>>

GenerateWeeklySchedule ==
    /\ coursesFrom \in {"processCourses", "store"}
    /\ gridOp = "none"
    /\ weeklyResult' = generateWeeklySchedule(courses)
    /\ gridOp' = "generate"
    /\ UNCHANGED <<callVars, statusVars, timerVars, rawCourses, courses, coursesFrom, renderResult, schedVars, dailyVars, storeVars,
                   uploadVars, queryVars>>

GridNext ==
    \/ ParseClassScheduleFile
    \/ ProcessCourses
    \/ GetSchedule
    \/ RenderWeeklySchedule
    \/ GenerateWeeklySchedule

SpecGrid == GridInit /\ [][GridNext]_vars

----------------------------------------------------------------------------
(* Properties of the weekly grid *)

\* some entry of course c has day d and contains period p
MeetsAt(c, p, d) ==
    /\ c.scheduleInfo.kind = "array"
    /\ \E k \in 1..Len(c.scheduleInfo.entries) :
           /\ c.scheduleInfo.entries[k].day = d
           /\ p \in Range(c.scheduleInfo.entries[k].periods)

Occurrences(cell, id) == Cardinality({k \in 1..Len(cell) : cell[k] = id})

\* C6: generateWeeklySchedule over the courses produced by processCourses
\* returns a grid holding course c in cell (p, d) iff some entry of c has
\* day d and p among its periods.
C6_GeneratedGridMatchesEntries ==
    (gridOp = "generate" /\ coursesFrom = "processCourses") =>
        /\ ~weeklyResult.threw
        /\ \A k \in 1..Len(courses), p \in 1..10, d \in 2..7 :
               (courses[k].id \in Range(weeklyResult.schedule[p - 1][d - 2]))
                   <=> MeetsAt(courses[k], p, d)

\* C7: the map built by renderWeeklySchedule holds course c in cell (p, d)
\* iff some entry of c.scheduleInfo has day d and contains p; courses without
\* entries and out-of-range entries do not disturb the other placements.
C7_RenderedMapMatchesEntries ==
    (gridOp = "render" /\ Len(courses) > 0) =>
        /\ renderResult.rendered
        /\ \A k \in 1..Len(courses), p \in 1..10, d \in 2..7 :
               (courses[k].id \in Range(renderResult.scheduleMap[p][d]))
                   <=> MeetsAt(courses[k], p, d)

\* a rendered list where one course has no entries, another has an entry
\* with an out-of-range period, and a placement was still made
C7_Witness ==
    /\ gridOp = "render"
    /\ Len(courses) = 2
    /\ courses[1].scheduleInfo = ArrayInfo(<<>>)
    /\ courses[2].scheduleInfo.kind = "array"
    /\ Len(courses[2].scheduleInfo.entries) = 2
    /\ courses[2].scheduleInfo.entries[1].day = 8
    /\ courses[2].scheduleInfo.entries[2].periods = <<0, 10, 11>>
    /\ renderResult.scheduleMap[10][3] = <<2>>

\* C8: no cell of the rendered grid holds the same course more than once.
C8_NoDuplicateInCell ==
    gridOp = "render" =>
        \A k \in 1..Len(courses), p \in 1..10, d \in 2..7 :
            Occurrences(renderResult.scheduleMap[p][d], courses[k].id) <= 1

----------------------------------------------------------------------------
(* Class-schedule import: handleScheduleUpload and the schedule list *)

ImportTexts == {TextMonday, TextTwoDays, TextBadDay}

ImportCourseLists == SeqsUpTo([schedule : ImportTexts], MaxCourses)

ImportInit ==
    SchedIdle /\ GridIdle /\ StoreIdle /\ UploadIdle /\ QueryIdle /\ DailyIdle /\ StatusIdle /\ TimerIdle /\ CallIdle

\* parseClassScheduleFile rejects: a wrong sheet structure or an unreadable file
UploadFileRejected ==
    /\ uploadPc = "idle"
    /\ uploadResult' = "error"
    /\ UNCHANGED <<callVars, statusVars, timerVars, uploadPc, uploadSchedule, schedVars, dailyVars, gridVars, storeVars,
                   queryVars>>

\* parseClassScheduleFile resolves with rows; createClassScheduleFromXLSX
\* runs up to its await of addItem (an empty row list throws)
UploadFileParsed ==
    /\ uploadPc = "idle"
    /\ nextId <= MaxUploads
    /\ \E rows \in ImportCourseLists :
          /\ rawCourses' = rows
          /\ IF Len(rows) = 0
             THEN /\ uploadResult' = "error"
                  /\ UNCHANGED <<uploadPc, uploadSchedule, clock>>
             ELSE /\ uploadSchedule' = [id |-> 0, type |-> "class",
                                        createdAt |-> clock + 1,
                                        courses |-> processCourses(rows)]
                  /\ clock' = clock + 1
                  /\ uploadPc' = "adding"
                  /\ uploadResult' = "none"
    /\ UNCHANGED <<callVars, statusVars, timerVars, courses, coursesFrom, gridOp, renderResult, weeklyResult,
                   store, nextId, schedules, currentSchedule, schedVars, dailyVars,
                   queryVars>>

\* addItem resolves: the record is stored, pushed to this.schedules and made
\* current; handleScheduleUpload then checks the returned schedule
UploadItemAdded ==
    /\ uploadPc = "adding"
    /\ LET schedule == [uploadSchedule EXCEPT !.id = nextId]
           validCourses == SelectSeq(schedule.courses, HasValidSchedule)
       IN /\ store' = addItem(uploadSchedule)
          /\ nextId' = nextId + 1
          /\ schedules' = Append(schedules, schedule)
          /\ currentSchedule' = schedule.id
          /\ uploadSchedule' = schedule
          /\ IF Len(validCourses) = 0
             THEN /\ uploadResult' = "error"
                  /\ uploadPc' = "idle"
             ELSE /\ uploadResult' = "success"
                  /\ uploadPc' = "listing"
    /\ queryDay' = -1 /\ dayCourses' = <<>>
    /\ UNCHANGED <<callVars, statusVars, timerVars, clock, schedVars, dailyVars, gridVars>>

\* renderSchedules: loadSchedules resolves, then the new schedule is shown
UploadListed ==
    /\ uploadPc = "listing"
    /\ schedules' = getAllItems
    /\ currentSchedule' = uploadSchedule.id
    /\ renderResult' = renderWeeklySchedule(uploadSchedule.courses)
    /\ uploadPc' = "idle"
    /\ queryDay' = -1 /\ dayCourses' = <<>>
    /\ UNCHANGED <<callVars, statusVars, timerVars, uploadSchedule, uploadResult, store, nextId, clock,
                   rawCourses, courses, coursesFrom, gridOp, weeklyResult,
                   schedVars, dailyVars>>

\* the delete button of the schedule list: deleteSchedule, then renderSchedules
DeleteSchedule ==
    /\ \E r \in store :
          /\ r.type = "class"
          /\ store' = deleteItem(r.id)
          /\ schedules' = SortedById(deleteItem(r.id))
          /\ currentSchedule' = IF currentSchedule = r.id THEN 0
                                ELSE currentSchedule
    /\ queryDay' = -1 /\ dayCourses' = <<>>
    /\ UNCHANGED <<callVars, statusVars, timerVars, nextId, clock, uploadVars, schedVars, dailyVars, gridVars>>

\* a call of getClassScheduleForDate; its result lives until the schedule
\* list changes
GetClassScheduleForDate ==
    /\ \E weekday \in 0..6 :
          /\ queryDay' = weekday
          /\ dayCourses' = getClassScheduleForDate(schedules, weekday)
    /\ UNCHANGED <<callVars, statusVars, timerVars, storeVars, uploadVars, schedVars, dailyVars, gridVars>>

ImportNext ==
    \/ UploadFileRejected
    \/ UploadFileParsed
    \/ UploadItemAdded
    \/ UploadListed
    \/ DeleteSchedule
    \/ GetClassScheduleForDate

SpecImport == ImportInit /\ [][ImportNext]_vars

----------------------------------------------------------------------------
(* Properties of the class-schedule import *)

ClassSchedulesInMemory == SelectSeq(schedules, LAMBDA sch : sch.type = "class")

\* the class schedule created last
NewestClassSchedule ==
    CHOOSE sch \in Range(ClassSchedulesInMemory) :
        \A other \in Range(ClassSchedulesInMemory) :
            other.createdAt <= sch.createdAt

\* ids of the courses of that schedule with an entry on domain day d
CoursesMeetingOn(d) ==
    IF Len(ClassSchedulesInMemory) = 0 THEN {}
    ELSE {c.id : c \in {x \in Range(NewestClassSchedule.courses) :
                           MeetsOnDay(x, d)}}

\* C1: for a date on Monday..Saturday (getDay 1..6) getClassScheduleForDate
\* returns exactly the courses of the newest class schedule that have an
\* entry on the date's domain day, 2 = Monday ... 7 = Saturday.
C1_DayCoursesMatchWeekday ==
    queryDay \in 1..6 =>
        {dayCourses[k].id : k \in 1..Len(dayCourses)}
            = CoursesMeetingOn(queryDay + 1)

AnyValidCourse(sch) ==
    \E k \in 1..Len(sch.courses) : HasValidSchedule(sch.courses[k])

\* C3: an import without any course holding a valid schedule entry leaves
\* no record in the store, in ScheduleManager.schedules or as currentSchedule.
C3_NoScheduleWithoutValidCourse ==
    /\ \A r \in store : r.type = "class" => AnyValidCourse(r)
    /\ \A k \in 1..Len(schedules) :
           schedules[k].type = "class" => AnyValidCourse(schedules[k])
    /\ \A r \in store : r.id = currentSchedule => AnyValidCourse(r)

----------------------------------------------------------------------------
(* Daily schedules: the create form, createDailySchedule and the list *)

Invocations == 1..MaxInvocations

\* a course row ticked with defaults, a morning course plus an exercise, two
\* eight-hour courses forced into the morning, a course row without a name,
\* a morning course of 410 minutes plus a short exercise, and a form with
\* nothing ticked
FormRows ==
    {<<[type |-> "study", courseName |-> "c", priority |-> "high",
        duration |-> 60, timeSlot |-> "auto"]>>,
     <<[type |-> "study", courseName |-> "c", priority |-> "medium",
        duration |-> 5, timeSlot |-> "morning"],
       [type |-> "exercise", courseName |-> "", priority |-> "medium",
        duration |-> 30, timeSlot |-> "auto"]>>,
     <<[type |-> "study", courseName |-> "c", priority |-> "low",
        duration |-> 999, timeSlot |-> "morning"],
       [type |-> "study", courseName |-> "c", priority |-> "low",
        duration |-> NaN, timeSlot |-> "morning"]>>,
     <<[type |-> "study", courseName |-> "", priority |-> "medium",
        duration |-> 60, timeSlot |-> "auto"]>>,
     <<[type |-> "study", courseName |-> "c", priority |-> "high",
        duration |-> 410, timeSlot |-> "morning"],
       [type |-> "exercise", courseName |-> "", priority |-> "medium",
        duration |-> 15, timeSlot |-> "auto"]>>,
     <<>>}

ClockMinutes == {0, 1320}

\* the class schedules the application was started with: none, or one
\* schedule with a course on day 2 and a course on days 4 and 7
StartSchedules ==
    {<<>>,
     <<[id |-> 1, type |-> "class", createdAt |-> 1,
        courses |-> processCourses(<<[schedule |-> TextMonday],
                                     [schedule |-> TextTwoDays]>>)]>>}

DailyInit ==
    /\ SchedIdle /\ GridIdle /\ UploadIdle /\ QueryIdle /\ DailyIdle /\ StatusIdle /\ TimerIdle /\ CallIdle
    /\ \E initial \in StartSchedules :
          /\ schedules = initial
          /\ store = Range(initial)
          /\ nextId = Len(initial) + 1
          /\ clock = Len(initial)
          /\ currentSchedule = 0

\* showCreateDailyScheduleForm: the container gets a new form for tomorrow;
\* its button has no listener yet, and the buttons of earlier forms are gone
ShowCreateDailyScheduleForm ==
    /\ formDate' = DateAt(today + 1, 0)
    /\ button' = "unbound"
    /\ invocation' = [i \in Invocations |->
                         [invocation[i] EXCEPT !.ownsButton = FALSE]]
    /\ UNCHANGED <<callVars, statusVars, timerVars, today, schedVars, gridVars, storeVars, uploadVars,
                   queryVars>>

\* the 100 ms timer of setupCreateDailyScheduleForm: setupFormHandlers
\* replaces the button by a clone carrying the click listener
SetupFormHandlers ==
    /\ button = "unbound"
    /\ button' = "enabled"
    /\ UNCHANGED <<callVars, statusVars, timerVars, today, formDate, invocation, schedVars, gridVars,
                   storeVars, uploadVars, queryVars>>

\* midnight passes
AdvanceDay ==
    /\ today < MaxDay
    /\ today' = today + 1
    /\ UNCHANGED <<callVars, statusVars, timerVars, formDate, button, invocation, schedVars, gridVars,
                   storeVars, uploadVars, queryVars>>

\* createDailySchedule returns to the click listener, which enables its
\* button again; that shows only while the button is still in the document
Return(i, outcome) ==
    /\ invocation' = [invocation EXCEPT ![i] =
                         [pc |-> "idle", date |-> invocation[i].date,
                          existing |-> 0, schedule |-> NoSchedule,
                          ownsButton |-> FALSE, outcome |-> outcome]]
    /\ button' = IF invocation[i].ownsButton THEN "enabled" ELSE button
    /\ UNCHANGED formDate

\* steps 3 to 11 of createDailySchedule, reading the form in the document
CollectAndPlan(i, targetDate) ==
    \E rows \in (IF formDate = NoForm THEN {<<>>} ELSE FormRows),
       notesValid \in BOOLEAN, proceed \in BOOLEAN :
        LET plan == PlanDailySchedule(schedules, targetDate, rows,
                                      notesValid, proceed)
        IN IF plan.outcome = "adding"
           THEN /\ invocation' = [invocation EXCEPT ![i] =
                                     [@ EXCEPT !.pc = "add",
                                               !.existing = 0,
                                               !.schedule = plan.schedule]]
                /\ UNCHANGED <<formDate, button>>
           ELSE Return(i, plan.outcome)

\* a click on the enabled button: the listener disables it and calls
\* createDailySchedule(targetDate), which runs up to its first await
ClickCreate(i) ==
    /\ button = "enabled"
    /\ invocation[i].pc = "idle"
    /\ \A j \in Invocations : invocation[j].pc = "idle" => i <= j
    /\ nextId <= MaxRecords
    /\ \E minutes \in ClockMinutes :
          IF validateDate(formDate, DateAt(today, minutes)).isValid
          THEN /\ invocation' = [invocation EXCEPT ![i] =
                                    [pc |-> "lookup", date |-> formDate,
                                     existing |-> 0, schedule |-> NoSchedule,
                                     ownsButton |-> TRUE, outcome |-> "none"]]
               /\ button' = "disabled"
               /\ UNCHANGED formDate
          ELSE /\ invocation' = [invocation EXCEPT ![i] =
                                    [@ EXCEPT !.date = formDate,
                                              !.outcome = "invalid-date"]]
               /\ UNCHANGED <<formDate, button>>
    /\ UNCHANGED <<callVars, statusVars, timerVars, today, schedVars, gridVars, storeVars, uploadVars,
                   queryVars>>

\* getDailyActivitySchedule resolves: without a record of that date, or
\* after the replacement was confirmed, the invocation goes on
LookupDone(i) ==
    /\ invocation[i].pc = "lookup"
    /\ LET existingSchedule == getDailyActivitySchedule(invocation[i].date)
       IN IF existingSchedule = 0
          THEN CollectAndPlan(i, invocation[i].date)
          ELSE \E confirmReplace \in BOOLEAN :
                  IF confirmReplace
                  THEN /\ invocation' = [invocation EXCEPT ![i] =
                                            [@ EXCEPT !.pc = "delete",
                                                      !.existing = existingSchedule]]
                       /\ UNCHANGED <<formDate, button>>
                  ELSE Return(i, "kept")
    /\ UNCHANGED <<callVars, statusVars, timerVars, today, schedVars, gridVars, storeVars, uploadVars,
                   queryVars>>

\* deleteDailyActivitySchedule resolves
DeleteDone(i) ==
    /\ invocation[i].pc = "delete"
    /\ store' = deleteItem(invocation[i].existing)
    /\ CollectAndPlan(i, invocation[i].date)
    /\ UNCHANGED <<callVars, statusVars, timerVars, today, nextId, schedules, currentSchedule, clock,
                   schedVars, gridVars, uploadVars, queryVars>>

\* addItem resolves: the record is stored, the container shows the new
\* schedule instead of the form, and the list is refreshed
AddDone(i) ==
    /\ invocation[i].pc = "add"
    /\ store' = addItem(invocation[i].schedule)
    /\ nextId' = nextId + 1
    /\ formDate' = NoForm
    /\ button' = "none"
    /\ invocation' = [j \in Invocations |->
                         IF j = i
                         THEN [pc |-> "idle", date |-> invocation[i].date,
                               existing |-> 0, schedule |-> NoSchedule,
                               ownsButton |-> FALSE, outcome |-> "created"]
                         ELSE [invocation[j] EXCEPT !.ownsButton = FALSE]]
    /\ UNCHANGED <<callVars, statusVars, timerVars, today, schedules, currentSchedule, clock, schedVars,
                   gridVars, uploadVars, queryVars>>

\* the delete button of a daily schedule in the list
DeleteDailySchedule ==
    /\ \E r \in store :
          /\ r.type = "daily-activity"
          /\ store' = deleteItem(r.id)
    /\ UNCHANGED <<callVars, statusVars, timerVars, today, formDate, button, invocation, nextId, schedules,
                   currentSchedule, clock, schedVars, gridVars, uploadVars,
                   queryVars>>

DailyNext ==
    \/ ShowCreateDailyScheduleForm
    \/ SetupFormHandlers
    \/ AdvanceDay
    \/ \E i \in Invocations : ClickCreate(i)
    \/ \E i \in Invocations : LookupDone(i)
    \/ \E i \in Invocations : DeleteDone(i)
    \/ \E i \in Invocations : AddDone(i)
    \/ DeleteDailySchedule

SpecDaily == DailyInit /\ [][DailyNext]_vars

----------------------------------------------------------------------------
(* Properties of the daily schedules *)

DailyRecords == {r \in store : r.type = "daily-activity"}

\* C9: every schedule record built by createDailyActivitySchedule has its
\* dayOfWeek in 2..7.
C9_DayOfWeekInDomain ==
    \A r \in DailyRecords : r.dayOfWeek \in 2..7

\* C10: whatever createDailySchedule invocations and deletions have run, and
\* however their lookup, delete and add steps interleaved, the store holds at
\* most one daily-activity record per calendar date.
C10_OneDailyRecordPerDate ==
    \A r1, r2 \in DailyRecords : r1.date = r2.date => r1.id = r2.id

\* C22: every activity that was scheduled with the morning slot (the ones
\* createDailySchedule put in morningActivities) is stored in
\* morningSchedule.activities, and every activity scheduled with the
\* afternoon slot is stored in afternoonSchedule.activities.
C22_BucketsMatchSlotsUsed ==
    \A r \in DailyRecords :
        /\ \A k \in 1..Len(r.morningSchedule.activities) :
               InMorningList(r.morningSchedule.activities[k])
        /\ \A k \in 1..Len(r.afternoonSchedule.activities) :
               InAfternoonList(r.afternoonSchedule.activities[k])

\* C23: when a createDailySchedule call ends without creating a schedule,
\* every daily schedule that was stored for its date before that step is
\* still stored after it.
C23_FailedReplaceKeepsOldSchedule ==
    [][\A i \in Invocations :
          (/\ invocation[i].pc \in {"lookup", "delete"}
           /\ invocation'[i].pc = "idle"
           /\ invocation'[i].outcome # "created")
          => \A r \in DailyRecords :
                 r.date = formatDate(invocation[i].date) => r \in store']_vars

----------------------------------------------------------------------------
(* Calls of parseScheduleString *)

DigitChar(n) ==
    CASE n = 0 -> "0" [] n = 1 -> "1" [] n = 2 -> "2" [] n = 3 -> "3"
      [] n = 4 -> "4" [] n = 5 -> "5" [] n = 6 -> "6" [] n = 7 -> "7"
      [] n = 8 -> "8" [] n = 9 -> "9"

\* the decimal numeral of n < 100
Numeral(n) ==
    IF n < 10 THEN <<DigitChar(n)>>
    ELSE <<DigitChar(n \div 10), DigitChar(n % 10)>>

RoomTexts == {<<"A", "1">>, <<"B", "1", "2">>, <<"E", "2", ".", "4", "0", "3">>}

\* "Thu D,P1-P2,ROOM"
WellFormedText(D, P1, P2, room) ==
    <<"T", "h", "u", " ">> \o Numeral(D) \o <<",">> \o Numeral(P1) \o <<"-">>
        \o Numeral(P2) \o <<",">> \o room

WellFormedTexts ==
    {WellFormedText(D, P1, P2, room) :
        D \in 2..7, P1 \in 1..10, P2 \in 1..10, room \in RoomTexts}

\* one weekly meeting as typed into the schedule cell, well formed or not
CandidateTexts ==
    {TextMonday,                                                \* Thu 2,1-2,A1
     TextBadDay,                                                \* Thu 8,1-2,A1
     TextBadRange,                                              \* Thu 3,5-4
     <<"t", "h", "u", "5", ",", "9", " ", "--", " ", "1", "0">>, \* thu5,9 – 10
     <<"T", "h", "u", " ", "6", ",", "3", ",", "A", "1">>,      \* Thu 6,3,A1
     <<"T", "h", "u", " ", "4">>,                               \* Thu 4
     <<"T", "h", "u", " ", "2", "-", "3">>,                     \* Thu 2-3
     <<"T", "h", "u", " ", "2", "5", ",", "1", "-", "2">>,      \* Thu 25,1-2
     <<"T", "h", "u", " ", "7", ",", "0", "-", "1", "1">>,      \* Thu 7,0-11
     <<"1", "-", "2", ",", "B", "1", "2">>,                     \* 1-2,B12
     <<"A", "1">>,                                              \* A1
     <<" ">>,
     <<>>}

SeparatorTexts == {<<";">>, <<"\n">>, <<" ", ";", " ">>}

RECURSIVE JoinedTexts(_)
JoinedTexts(n) ==
    IF n = 1 THEN CandidateTexts
    ELSE JoinedTexts(n - 1) \cup
         {t \o sep \o c : t \in JoinedTexts(n - 1), sep \in SeparatorTexts,
                          c \in CandidateTexts}

ParserTexts == WellFormedTexts \cup JoinedTexts(MaxCandidates)

ParserInit ==
    /\ SchedIdle /\ GridIdle /\ StoreIdle /\ UploadIdle /\ QueryIdle
    /\ DailyIdle /\ StatusIdle /\ TimerIdle
    /\ callee = "none"
    /\ args \in ParserTexts
    /\ returned = NoResult

ParseScheduleString ==
    /\ callee = "none"
    /\ callee' = "parseScheduleString"
    /\ returned' = parseScheduleString(args)
    /\ UNCHANGED <<args, statusVars, timerVars, schedVars, gridVars, storeVars, uploadVars,
                   queryVars, dailyVars>>

ParserNext == ParseScheduleString

SpecParser == ParserInit /\ [][ParserNext]_vars

----------------------------------------------------------------------------
(* Properties of parseScheduleString *)

Parsed == callee = "parseScheduleString"

IsRun(periods) ==
    /\ Len(periods) > 0
    /\ periods[1] >= 1 /\ periods[Len(periods)] <= 10
    /\ \A k \in 1..(Len(periods) - 1) : periods[k + 1] = periods[k] + 1

\* the pieces of text between the separators ';' and newline, in order
SeparatorsOf(text) == {i \in 1..Len(text) : text[i] \in {";", "\n"}}

CandidateAt(text, i) ==
    LET next == {j \in SeparatorsOf(text) : j >= i}
    IN SubStr(text, i, IF next = {} THEN Len(text) ELSE FirstOf(next) - 1)

CandidateStarts(text) == {1} \cup {i + 1 : i \in SeparatorsOf(text)}

YieldsEntry(cand) ==
    /\ parseSingleScheduleEntry(cand).day \in 2..7
    /\ Len(parseSingleScheduleEntry(cand).periods) > 0

RECURSIVE EntriesFrom(_, _)
EntriesFrom(text, starts) ==
    IF starts = {} THEN <<>>
    ELSE LET i == FirstOf(starts)
             cand == CandidateAt(text, i)
         IN (IF YieldsEntry(cand) THEN <<parseSingleScheduleEntry(cand)>>
             ELSE <<>>) \o EntriesFrom(text, starts \ {i})

\* C11: every entry returned by parseScheduleString has a day in 2..7 and a
\* non-empty periods list that is a run start..end with 1 <= start <= end
\* <= 10; a candidate without a valid day or without a period gives no entry.
C11_EntriesHaveDayAndPeriods ==
    Parsed =>
        /\ \A k \in 1..Len(returned) :
               /\ returned[k].day \in 2..7
               /\ IsRun(returned[k].periods)
        /\ Len(returned) = Cardinality({i \in CandidateStarts(args) :
                                         YieldsEntry(CandidateAt(args, i))})

\* a candidate with a day and no period was dropped next to a kept one
C11_Witness ==
    /\ Parsed
    /\ Len(returned) = 1
    /\ \E i \in CandidateStarts(args) :
           /\ parseSingleScheduleEntry(CandidateAt(args, i)).day # NoDay
           /\ parseSingleScheduleEntry(CandidateAt(args, i)).periods = <<>>

\* C12: for "Thu D,P1-P2,ROOM" with 2 <= D <= 7 and 1 <= P1 <= P2 <= 10,
\* parseScheduleString returns exactly one entry, with day D, periods
\* P1..P2 and room ROOM.
C12_WellFormedTextGivesItsEntry ==
    Parsed =>
        \A D \in 2..7, P1 \in 1..10, P2 \in 1..10, room \in RoomTexts :
            (P1 <= P2 /\ args = WellFormedText(D, P1, P2, room)) =>
                returned = <<[day |-> D,
                            periods |-> [k \in 1..(P2 - P1 + 1) |-> P1 + k - 1],
                            room |-> room]>>

\* "Thu 7,3-10,E2.403" was parsed
C12_Witness ==
    /\ Parsed
    /\ args = WellFormedText(7, 3, 10, <<"E", "2", ".", "4", "0", "3">>)
    /\ Len(returned) = 1
    /\ returned[1].day = 7
    /\ Len(returned[1].periods) = 8

\* C13: parseScheduleString returns, in candidate order, exactly the entries
\* of the candidates that yield a valid day and a period on their own; an
\* invalid candidate changes nothing for the others, and blank text gives
\* the empty list.
C13_EntriesOfValidCandidatesInOrder ==
    Parsed =>
        /\ returned = EntriesFrom(args, CandidateStarts(args))
        /\ (\A i \in 1..Len(args) : IsSpace(args[i])) => returned = <<>>

\* an invalid candidate in front of a valid one
C13_Witness ==
    /\ Parsed
    /\ Cardinality(CandidateStarts(args)) = 2
    /\ ~YieldsEntry(CandidateAt(args, 1))
    /\ CandidateAt(args, 1) # <<>>
    /\ Len(returned) = 1
    /\ returned[1].day = 2

----------------------------------------------------------------------------
(* Calls of the validator functions and of calculateTimeSlots *)

\* activities as validateTimeSlotCapacity reads them; 0 is a missing duration
CapacityActivities ==
    SeqsUpTo([estimatedDuration : {0, 15, 30, 480}], MaxActivities)

CapacitySlots ==
    [startTime : {<<5, 0>>},
     endTime : {<<4, 50>>, <<5, 0>>, <<5, 10>>, <<6, 40>>, <<12, 0>>}]

CapacityArgs ==
    [fn : {"validateTimeSlotCapacity"}, activities : CapacityActivities,
     timeSlot : CapacitySlots]

\* activities as validateActivities reads them: id 0 is a missing id and a
\* duration of 5 is below the minimum
ListedActivities ==
    [id : {0, 1, 2}, type : {"study"}, courseName : {"c"},
     priority : {"medium"}, timeSlot : {NoSlot}, estimatedDuration : {5, 60}]

ActivitiesArgs ==
    [fn : {"validateActivities"},
     activities : SeqsUpTo(ListedActivities, MaxListed)]

\* a class from period first to period last, as getClassScheduleForDate
\* builds it
ClassOccurrence(first, last) ==
    [startTime |-> getTimeFromPeriod(first),
     endTime |-> getTimeFromPeriod(last + 1)]

ClassOccurrences ==
    {ClassOccurrence(first, last) : first \in 1..10, last \in 1..10}
    \cup {[startTime |-> <<8, 0>>, endTime |-> <<9, 50>>]}

TimeSlotsArgs ==
    [fn : {"calculateTimeSlots"},
     classCourses : SeqsUpTo({c \in ClassOccurrences :
                                 timeToMinutes(c.startTime)
                                     < timeToMinutes(c.endTime)}, MaxClasses)]

\* the argument and the clock of a validateDate call
DateArgs ==
    [fn : {"validateDate"},
     date : {DateAt(day, minutes) : day \in {-1, 0, 1, 364, 365, 366},
                                    minutes \in {0, 600, 1380}},
     now : {DateAt(0, minutes) : minutes \in {0, 600, 1380}}]

CallsInit ==
    /\ SchedIdle /\ GridIdle /\ StoreIdle /\ UploadIdle /\ QueryIdle
    /\ DailyIdle /\ StatusIdle /\ TimerIdle
    /\ callee = "none"
    /\ args \in CapacityArgs \cup ActivitiesArgs \cup TimeSlotsArgs
                \cup DateArgs
    /\ returned = NoResult

ValidateTimeSlotCapacity ==
    /\ callee = "none"
    /\ args.fn = "validateTimeSlotCapacity"
    /\ callee' = args.fn
    /\ returned' = validateTimeSlotCapacity(args.activities, args.timeSlot)
    /\ UNCHANGED <<args, statusVars, timerVars, schedVars, gridVars, storeVars, uploadVars,
                   queryVars, dailyVars>>

ValidateActivities ==
    /\ callee = "none"
    /\ args.fn = "validateActivities"
    /\ callee' = args.fn
    /\ returned' = validateActivities(args.activities)
    /\ UNCHANGED <<args, statusVars, timerVars, schedVars, gridVars, storeVars, uploadVars,
                   queryVars, dailyVars>>

CalculateTimeSlots ==
    /\ callee = "none"
    /\ args.fn = "calculateTimeSlots"
    /\ callee' = args.fn
    /\ returned' = calculateTimeSlotsFor(args.classCourses)
    /\ UNCHANGED <<args, statusVars, timerVars, schedVars, gridVars, storeVars, uploadVars,
                   queryVars, dailyVars>>

ValidateDate ==
    /\ callee = "none"
    /\ args.fn = "validateDate"
    /\ callee' = args.fn
    /\ returned' = validateDate(args.date, args.now)
    /\ UNCHANGED <<args, statusVars, timerVars, schedVars, gridVars, storeVars, uploadVars,
                   queryVars, dailyVars>>

CallsNext ==
    \/ ValidateTimeSlotCapacity
    \/ ValidateActivities
    \/ CalculateTimeSlots
    \/ ValidateDate

SpecCalls == CallsInit /\ [][CallsNext]_vars

----------------------------------------------------------------------------
(* Properties of validateTimeSlotCapacity *)

\* the durations of the first n activities, added up
RECURSIVE TotalOfFirst(_, _)
TotalOfFirst(acts, n) ==
    IF n = 0 THEN 0 ELSE TotalOfFirst(acts, n - 1) + acts[n].estimatedDuration

\* C17: for n activities and a slot that ends after it starts,
\* requiredTime = sum of durations + max(0, (n-1)*10), canFit = (requiredTime
\* <= availableTime) and overflow = max(0, requiredTime - availableTime),
\* with availableTime = end - start in minutes.
C17_CapacityFigures ==
    (callee = "validateTimeSlotCapacity"
     /\ timeToMinutes(args.timeSlot.endTime)
            > timeToMinutes(args.timeSlot.startTime)) =>
        LET n == Len(args.activities)
            available == timeToMinutes(args.timeSlot.endTime)
                         - timeToMinutes(args.timeSlot.startTime)
            required == TotalOfFirst(args.activities, n)
                        + (IF n > 1 THEN (n - 1) * 10 ELSE 0)
        IN /\ returned.availableTime = available
           /\ returned.requiredTime = required
           /\ returned.canFit = (required <= available)
           /\ returned.overflow
                  = (IF required > available THEN required - available ELSE 0)

\* three 30-minute activities in a 100-minute window: 110 needed, 10 too many
C17_Witness ==
    /\ callee = "validateTimeSlotCapacity"
    /\ Len(args.activities) = 3
    /\ \A k \in 1..3 : args.activities[k].estimatedDuration = 30
    /\ args.timeSlot.endTime = <<6, 40>>
    /\ returned.requiredTime = 110
    /\ ~returned.canFit
    /\ returned.overflow = 10

----------------------------------------------------------------------------
(* Properties of validateActivities *)

\* the ids that occur at more than one position of the list
RepeatedIds(acts) ==
    {acts[j].id : j \in {i \in 1..Len(acts) :
        /\ acts[i].id # 0
        /\ \E k \in 1..Len(acts) : k # i /\ acts[k].id = acts[i].id}}

\* C18: for a list in which some id occurs more than once, validateActivities
\* returns isValid = false, its errors name every repeated id, and they hold
\* the errors of every invalid activity as well.
C18_AllDuplicateIdsReported ==
    (callee = "validateActivities" /\ RepeatedIds(args.activities) # {}) =>
        /\ ~returned.isValid
        /\ \E e \in Range(returned.errors) :
               /\ e.index = 0
               /\ Range(e.ids) = RepeatedIds(args.activities)
        /\ \A k \in 1..Len(args.activities) :
               ~validateActivity(args.activities[k]).isValid =>
                   \E e \in Range(returned.errors) :
                       /\ e.index = k
                       /\ e.errors = validateActivity(args.activities[k]).errors

\* two different ids are repeated and one activity is invalid on its own
C18_Witness ==
    /\ callee = "validateActivities"
    /\ RepeatedIds(args.activities) = {1, 2}
    /\ \E k \in 1..Len(args.activities) :
           ~validateActivity(args.activities[k]).isValid
    /\ Len(returned.errors) >= 2
    /\ returned.errors[Len(returned.errors)].ids = <<2, 1>>

----------------------------------------------------------------------------
(* Properties of calculateTimeSlots *)

StartsOf(classCourses) ==
    {timeToMinutes(classCourses[k].startTime) : k \in 1..Len(classCourses)}

EndsOf(classCourses) ==
    {timeToMinutes(classCourses[k].endTime) : k \in 1..Len(classCourses)}

SetMin(S) == CHOOSE x \in S : \A y \in S : x <= y
SetMax(S) == CHOOSE x \in S : \A y \in S : x >= y

\* C19: with classes, calculateTimeSlots returns hasClassToday = true, the
\* morning slot from 05:00 to 30 minutes before the earliest class start and
\* the afternoon slot from 30 minutes after the latest class end to 23:00,
\* each with duration = end - start; without classes it returns 05:00-12:00
\* (420 minutes) and 12:00-23:00 (660 minutes).
C19_SlotsAroundClasses ==
    callee = "calculateTimeSlots" =>
        IF Len(args.classCourses) > 0
        THEN LET morningEnd == SetMin(StartsOf(args.classCourses)) - 30
                 afternoonStart == SetMax(EndsOf(args.classCourses)) + 30
             IN /\ returned.hasClassToday
                /\ returned.morningSlot.startTime = <<5, 0>>
                /\ returned.morningSlot.endTime
                       = <<morningEnd \div 60, morningEnd % 60>>
                /\ returned.morningSlot.duration = morningEnd - 300
                /\ returned.afternoonSlot.startTime
                       = <<afternoonStart \div 60, afternoonStart % 60>>
                /\ returned.afternoonSlot.endTime = <<23, 0>>
                /\ returned.afternoonSlot.duration = 1380 - afternoonStart
        ELSE /\ ~returned.hasClassToday
             /\ returned.morningSlot
                    = [startTime |-> <<5, 0>>, endTime |-> <<12, 0>>,
                       duration |-> 420]
             /\ returned.afternoonSlot
                    = [startTime |-> <<12, 0>>, endTime |-> <<23, 0>>,
                       duration |-> 660]

\* a class 08:00-09:50 after a later, longer one: morning ends 07:30
C19_Witness ==
    /\ callee = "calculateTimeSlots"
    /\ Len(args.classCourses) = 2
    /\ args.classCourses[1].startTime = <<13, 30>>
    /\ args.classCourses[2] = [startTime |-> <<8, 0>>, endTime |-> <<9, 50>>]
    /\ returned.morningSlot.endTime = <<7, 30>>
    /\ returned.afternoonSlot.startTime # <<10, 20>>

----------------------------------------------------------------------------
(* Properties of validateDate *)

\* C20: validateDate accepts a date iff its calendar day lies between today
\* and today + 365 days inclusive, whatever the time of day of the argument
\* and of the clock.
C20_DateOnlyComparison ==
    callee = "validateDate" =>
        (returned.isValid
            <=> (args.date.day >= args.now.day
                 /\ args.date.day <= args.now.day + 365))

----------------------------------------------------------------------------
(* Calls of sanitizeString *)

TextChars == {"<", ">", "/", "s", " "}

SanitizeInit ==
    /\ SchedIdle /\ GridIdle /\ StoreIdle /\ UploadIdle /\ QueryIdle
    /\ DailyIdle /\ StatusIdle /\ TimerIdle
    /\ callee = "none"
    /\ args \in SeqsUpTo(TextChars, MaxText)
    /\ returned = <<>>

\* sanitizeString(str), then sanitizeString of what that returned
SanitizeString ==
    /\ Len(returned) < 2
    /\ callee' = "sanitizeString"
    /\ returned' = Append(returned,
                          sanitizeString(IF returned = <<>> THEN args
                                         ELSE returned[1]))
    /\ UNCHANGED <<args, statusVars, timerVars, schedVars, gridVars, storeVars, uploadVars,
                   queryVars, dailyVars>>

SanitizeNext == SanitizeString

SpecSanitize == SanitizeInit /\ [][SanitizeNext]_vars

\* C21: sanitizeString is idempotent: sanitizeString(sanitizeString(s))
\* equals sanitizeString(s).
C21_SanitizeIdempotent ==
    (callee = "sanitizeString" /\ Len(returned) = 2) =>
        returned[2] = returned[1]

\* a text that loses a script block in the first pass went through twice
C21_Witness ==
    /\ callee = "sanitizeString"
    /\ Len(returned) = 2
    /\ args = <<"s", "<", "s", "<", "/", "s", ">">>
    /\ returned[1] = <<"s">>

----------------------------------------------------------------------------
(* Specification of updateActivityStatus: calls on a stored daily schedule,
   each split at its two awaits *)

\* an exercise in the morning list and a course in the afternoon list, or a
\* course and an exercise both in the morning list
StatusRows ==
    {<<[type |-> "exercise", courseName |-> "", priority |-> "medium",
        duration |-> 30, timeSlot |-> "auto"],
       [type |-> "study", courseName |-> "c", priority |-> "high",
        duration |-> 60, timeSlot |-> "auto"]>>,
     <<[type |-> "study", courseName |-> "c", priority |-> "medium",
        duration |-> 45, timeSlot |-> "morning"],
       [type |-> "exercise", courseName |-> "", priority |-> "medium",
        duration |-> 30, timeSlot |-> "auto"]>>}

\* ids of the stored schedule and of no schedule; ids of its activities and
\* of no activity; the statuses the two buttons send
ScheduleIdInputs == {1, 2}
ActivityIdInputs == {1, 2, 9}
StatusInputs == {"completed", "skipped"}

\* the store holds one daily schedule that createDailySchedule built and
\* addItem stored under id 1
StatusInit ==
    /\ SchedIdle /\ GridIdle /\ UploadIdle /\ QueryIdle /\ DailyIdle
    /\ StatusIdle /\ TimerIdle /\ CallIdle
    /\ \E rows \in StatusRows :
          store = {[PlanDailySchedule(<<>>, DateAt(1, 0), rows, TRUE, TRUE)
                        .schedule EXCEPT !.id = 1]}
    /\ nextId = 2
    /\ schedules = <<>>
    /\ currentSchedule = 0
    /\ clock = 0

\* updateActivityStatus(scheduleId, activityId, status) up to its first
\* await: getItem is requested
UpdateActivityStatus ==
    /\ BagCardinality(statusCall) < MaxUpdates
    /\ \E scheduleId \in ScheduleIdInputs, activityId \in ActivityIdInputs,
          status \in StatusInputs :
          statusCall' = statusCall (+)
                        SetToBag({[pc |-> "get", scheduleId |-> scheduleId,
                                   activityId |-> activityId,
                                   status |-> status,
                                   schedule |-> NoSchedule]})
    /\ UNCHANGED <<callVars, timerVars, schedVars, gridVars, storeVars,
                   uploadVars, queryVars, dailyVars>>

\* getItem resolves with a copy of the stored record: the call throws
\* 'Schedule not found' and is over, or changes its copy and requests
\* updateItem
GetItemDone ==
    /\ \E call \in BagToSet(statusCall) :
          /\ call.pc = "get"
          /\ LET found == {r \in store : r.id = call.scheduleId}
                 others == statusCall (-) SetToBag({call})
             IN IF \A r \in found : r.type # "daily-activity"
                THEN statusCall' = others
                ELSE \E r \in found :
                         statusCall' = others (+)
                             SetToBag({[call EXCEPT
                                 !.pc = "put",
                                 !.schedule =
                                     applyActivityStatus(r, call.activityId,
                                                         call.status)]})
    /\ UNCHANGED <<callVars, timerVars, schedVars, gridVars, storeVars,
                   uploadVars, queryVars, dailyVars>>

\* updateItem resolves: the copy replaces the stored record and the call
\* is over
UpdateItemDone ==
    /\ \E call \in BagToSet(statusCall) :
          /\ call.pc = "put"
          /\ store' = updateItem(call.schedule)
          /\ statusCall' = statusCall (-) SetToBag({call})
    /\ UNCHANGED <<callVars, timerVars, schedVars, gridVars, nextId,
                   schedules, currentSchedule, clock, uploadVars, queryVars,
                   dailyVars>>

StatusNext ==
    \/ UpdateActivityStatus
    \/ GetItemDone
    \/ UpdateItemDone

SpecStatus == StatusInit /\ [][StatusNext]_vars

----------------------------------------------------------------------------
(* Properties of updateActivityStatus *)

AllActivitiesOf(r) ==
    r.morningSchedule.activities \o r.afternoonSchedule.activities

ActivityIdsOf(r) ==
    {AllActivitiesOf(r)[k].id : k \in 1..Len(AllActivitiesOf(r))}

StatusOf(r, activityId) ==
    LET acts == AllActivitiesOf(r)
    IN {acts[k].status : k \in {n \in 1..Len(acts) : acts[n].id = activityId}}

\* C24: when the updateItem of a call for one activity of a schedule
\* resolves, the stored schedule keeps the status of every other activity,
\* so a status that another call wrote while this call was in flight is
\* still there after both have completed.
C24_BothUpdatesStored ==
    [][\A call \in BagToSet(statusCall) :
          (/\ call.pc = "put"
           /\ statusCall' = statusCall (-) SetToBag({call})
           /\ store' = updateItem(call.schedule)
           /\ call.activityId \in ActivityIdsOf(call.schedule))
          => \A r \in store, w \in store' :
                 (r.id = call.scheduleId /\ w.id = call.scheduleId)
                 => \A a \in ActivityIdsOf(r) \ {call.activityId} :
                        StatusOf(w, a) = StatusOf(r, a)]_vars

\* C30: in every stored daily schedule completedActivities is the number of
\* activities of both lists whose status is 'completed', and it is at most
\* totalActivities; a call whose activityId is in neither list hands
\* updateItem the statuses it read.
C30_CompletedCountMatches ==
    /\ [](\A r \in DailyRecords :
              /\ r.completedActivities
                     = Cardinality({k \in 1..Len(AllActivitiesOf(r)) :
                           AllActivitiesOf(r)[k].status = "completed"})
              /\ r.completedActivities <= r.totalActivities)
    /\ [][\A call \in BagToSet(statusCall) :
             \A r \in store :
                 (/\ call.pc = "get"
                  /\ r.id = call.scheduleId
                  /\ call.activityId \notin ActivityIdsOf(r)
                  /\ statusCall' # statusCall)
                 => \A c \in BagToSet(statusCall') :
                        (/\ CopiesIn(c, statusCall') > CopiesIn(c, statusCall)
                         /\ c.pc = "put" /\ c.scheduleId = call.scheduleId
                         /\ c.activityId = call.activityId)
                        => AllActivitiesOf(c.schedule) = AllActivitiesOf(r)
          ]_vars

\* both activities completed and counted, and a call for an unknown
\* activity about to write back what it read
C30_Witness ==
    /\ \E r \in DailyRecords : /\ r.completedActivities = 2
                               /\ r.totalActivities = 2
    /\ \E c \in BagToSet(statusCall) :
           /\ c.pc = "put" /\ c.activityId = 9
           /\ c.schedule.completedActivities = 2

----------------------------------------------------------------------------
(* Specification of the Pomodoro timer: the button and keyboard handlers,
   the interval and timeout callbacks, the visibilitychange listener *)

World ==
    [timer |-> timer, browser |-> browser, localStorage |-> localStorage,
     settings |-> settings]

\* the handler returned with w; sessions and pending timeouts stay within
\* the bounds
Becomes(w) ==
    /\ Len(w.timer.sessionHistory) <= MaxSessions
    /\ Len(w.browser.timeouts) <= MaxPending
    /\ timer' = w.timer
    /\ browser' = w.browser
    /\ localStorage' = w.localStorage
    /\ UNCHANGED <<settings, callVars, statusVars, schedVars, gridVars,
                   storeVars, uploadVars, queryVars, dailyVars>>

\* one-minute work and short-break sessions, two-minute long breaks, a long
\* break after every second pomodoro, each auto-start option on or off
SettingsInputs ==
    [workDuration : {1}, shortBreakDuration : {1}, longBreakDuration : {2},
     longBreakInterval : {2}, autoStartBreaks : BOOLEAN,
     autoStartPomodoros : BOOLEAN]

QuickMinutes == {1}
SessionTypes == {"work", "shortBreak", "longBreak"}
TimePassedInputs == {45, 600}

\* the page has loaded with no saved timer state
TimerInit ==
    /\ SchedIdle /\ GridIdle /\ StoreIdle /\ UploadIdle /\ QueryIdle
    /\ DailyIdle /\ StatusIdle /\ CallIdle
    /\ settings \in SettingsInputs
    /\ timer = NewTimer(settings, <<>>)
    /\ browser = [intervals |-> 0, timeouts |-> <<>>, hidden |-> FALSE]
    /\ localStorage = [state |-> <<>>, hiddenTime |-> FALSE]

\* startBtn is shown, and the space key starts, only while not running
Start ==
    /\ ~timer.isRunning
    /\ Becomes(start(World))

\* pauseBtn is shown, and the space key pauses, only while running
Pause ==
    /\ timer.isRunning
    /\ Becomes(pause(World))

Reset == Becomes(reset(World))

Skip == Becomes(skip(World))

SetQuickTimer ==
    \E minutes \in QuickMinutes, sessionType \in SessionTypes :
        Becomes(setQuickTimer(World, minutes, sessionType))

\* a registered interval fires; a pending auto-start timeout is due after
\* 2000 ms, so it fires before the third 1000 ms tick that follows it
Tick ==
    /\ browser.intervals > 0
    /\ \A k \in 1..Len(browser.timeouts) : browser.timeouts[k] < 2
    /\ Becomes(tick([World EXCEPT !.browser.timeouts =
                        [k \in 1..Len(@) |-> @[k] + 1]]))

\* the oldest pending setTimeout(() => this.start(), 2000) fires
AutoStart ==
    /\ browser.timeouts # <<>>
    /\ Becomes(start([World EXCEPT !.browser.timeouts = Tail(@)]))

\* the tab is hidden or shown again
VisibilityChange ==
    \E timePassed \in TimePassedInputs :
        Becomes(handleVisibilityChange(
                    [World EXCEPT !.browser.hidden = ~@], timePassed))

TimerNext ==
    \/ Start
    \/ Pause
    \/ Reset
    \/ Skip
    \/ SetQuickTimer
    \/ Tick
    \/ AutoStart
    \/ VisibilityChange

SpecTimer == TimerInit /\ [][TimerNext]_vars

----------------------------------------------------------------------------
(* Properties of the timer *)

\* C26: when the user has paused the timer after the session ended (the
\* timer is paused part-way through the new session), the delayed
\* auto-start callback does not set it running again.
C26_PauseSurvivesAutoStart ==
    [][(/\ timer.isPaused
        /\ timer.currentTime
               < getSessionDuration(settings, timer.currentSession) * 60
        /\ AutoStart)
       => ~timer'.isRunning]_vars

\* C27: skip() of a work session records it with completed = false and
\* leaves completedPomodoros and totalWorkTime as they were (with more than
\* one second left, so that the step is no tick).
C27_SkippedWorkNotCounted ==
    [][(timer.currentSession = "work" /\ timer.currentTime > 1 /\ Skip)
       => /\ ~Head(timer'.sessionHistory).completed
          /\ timer'.completedPomodoros = timer.completedPomodoros
          /\ timer'.totalWorkTime = timer.totalWorkTime]_vars

\* C28: isRunning is true exactly when timerInterval holds a handle, and
\* at most one tick interval is registered, namely that one.
C28_RunningIffOneInterval ==
    /\ timer.isRunning <=> timer.timerInterval
    /\ browser.intervals <= 1
    /\ browser.intervals = IF timer.timerInterval THEN 1 ELSE 0

\* two sessions were skipped with both auto-start options on, and both
\* delayed start() calls have run: one interval is registered
C28_Witness ==
    /\ settings.autoStartBreaks /\ settings.autoStartPomodoros
    /\ Len(timer.sessionHistory) = 2
    /\ browser.timeouts = <<>>
    /\ timer.isRunning
    /\ timer.timerInterval
    /\ browser.intervals = 1

\* C29: a step that ends a session (the history grows) goes from work to
\* longBreak when completedPomodoros is then a positive multiple of
\* longBreakInterval and to shortBreak otherwise, from a break to work;
\* currentTime is the full duration of the new session and the timer is
\* not running.
C29_SessionCycle ==
    [][Len(timer'.sessionHistory) > Len(timer.sessionHistory)
       => LET ended == Head(timer'.sessionHistory).type
              completed == timer'.completedPomodoros
          IN /\ timer'.currentSession =
                    IF ended = "work"
                    THEN IF completed > 0
                            /\ completed % settings.longBreakInterval = 0
                         THEN "longBreak"
                         ELSE "shortBreak"
                    ELSE "work"
             /\ timer'.currentTime =
                    getSessionDuration(settings, timer'.currentSession) * 60
             /\ ~timer'.isRunning
             /\ ~timer'.timerInterval]_vars

\* the second pomodoro has ended and the long break of 2 minutes is set
C29_Witness ==
    /\ Len(timer.sessionHistory) = 3
    /\ Head(timer.sessionHistory).type = "work"
    /\ timer.completedPomodoros = 2
    /\ timer.currentSession = "longBreak"
    /\ timer.currentTime = 120
    /\ ~timer.isRunning

====
